---- MODULE Spec2Model ----
(***************************************************************************)
(* Verification model of zeroimage: the tar Builder (internal/tarbuild),   *)
(* the OCI archive reader and writer (internal/ociarchive), the image      *)
(* loader and platforms (internal/image) and the pusher                    *)
(* (internal/registry).                                                    *)
(*                                                                         *)
(* The specifications share the variables:                                 *)
(*   Spec         one tar Builder driven by Add / AddContent / Close       *)
(*   SpecArchive  LoadArchive applied to arbitrary tar entry sequences     *)
(*   SpecImage    Load / GetImage / AppendLayer / WriteImage / LoadArchive *)
(*   SpecLayer    the layer constructor and the readers of its blob        *)
(*   SpecRead     one document read by digest, or as the root document     *)
(*   SpecThunks   the GetImage thunks of one index, run concurrently       *)
(*   SpecMedia    GetImage on manifests of every layer media type          *)
(*   SpecPlatform SelectByPlatform, ParsePlatform and FormatPlatform       *)
(*   SpecWrite    WriteImage to a failing sink, PushImage to a registry    *)
(*   SpecRoot     Load and the thunks on a root that is a single manifest  *)
(*   SpecFetch    the thunks on a store whose documents fail to be read    *)
(*   SpecFlatten  Load on root indexes that nest indexes                   *)
(*   SpecPush     PushImage on images of up to MaxPushLayers layers        *)
(*   SpecPushFair SpecPush with every step that can be taken, taken        *)
(***************************************************************************)
EXTENDS Integers, Sequences, FiniteSets, TLC

VARIABLES
    b,        \* the tarbuild.Builder under test (Spec)
    ret,      \* the last call made on b and the error it returned
    nOps,     \* number of calls made so far (bounded)
    ar,       \* archive reader state (SpecArchive)
    im,       \* loader / image state (SpecImage, SpecWrite, SpecPush)
    lb,       \* layer constructor and blob readers (SpecLayer)
    ld        \* a loader at work on one store (SpecRead, SpecThunks, SpecMedia,
              \* SpecRoot, SpecFetch, SpecFlatten), or a call on platforms
              \* (SpecPlatform)

vars == <<b, ret, nOps, ar, im, lb, ld>>

(***************************************************************************)
(* Bounds                                                                  *)
(***************************************************************************)
MaxOps == 3
MaxSink == 3

(***************************************************************************)
(* Small helpers                                                           *)
(***************************************************************************)
\* F(x), with x evaluated once where it is bound, as a local variable is.
Bind(x, F(_)) == F(x)

Min(x, y) == IF x < y THEN x ELSE y

Last(s) == s[Len(s)]

Front(s) == SubSeq(s, 1, Len(s) - 1)

IsPrefix(s, t) == Len(s) <= Len(t) /\ SubSeq(t, 1, Len(s)) = s

(***************************************************************************)
(* Errors.  Every error value is a record of the same shape so that any    *)
(* two of them can be compared.                                            *)
(*   type = "nil"       no error                                           *)
(*   type = "raw"       a plain error value, Err names it                  *)
(*   type = "AddError"  tarbuild.AddError{Path, Err}                       *)
(***************************************************************************)
Root == <<>>

Nil == [type |-> "nil", Path |-> Root, Err |-> "nil"]

RawErr(e) == [type |-> "raw", Path |-> Root, Err |-> e]

AddError(p, e) == [type |-> "AddError", Path |-> p, Err |-> e]

ErrBuilderClosed == RawErr("tarbuild: builder closed")

ErrDuplicateEntry == RawErr("duplicate entry")

\* fmt.Errorf("%w: cannot add directory where non-directory exists", ErrDuplicateEntry)
ErrDuplicateNonDir == "duplicate entry: cannot add directory where non-directory exists"

\* errors.Is(err, ErrDuplicateEntry)
IsDuplicateEntry(err) ==
    err.type # "nil" /\ err.Err \in {ErrDuplicateEntry.Err, ErrDuplicateNonDir}

\* errors.Is(err, ErrEntryOutsideOfArchive): named by the tests only; no
\* builder operation produces it.
IsEntryOutsideOfArchive(err) == err.type # "nil" /\ err.Err = "entry outside of archive"

TypeReg == "reg"
TypeDir == "dir"

Mode0644 == 420
Mode0755 == 493
Mode01777 == 1023

(***************************************************************************)
(* Paths.  A raw path is [abs, segs]: abs says whether the string starts   *)
(* with "/", segs are the pieces between slashes ("" for a doubled or      *)
(* trailing slash).  An npath is the sequence of its segments, "." being   *)
(* the empty sequence Root.                                                *)
(***************************************************************************)
RawPath(abs, segs) == [abs |-> abs, segs |-> segs]

\* path.Clean, on the segments: "" and "." vanish, ".." removes the last
\* real segment, is dropped at the root of a rooted path and is kept at the
\* front of a relative one.
RECURSIVE CleanSegs(_, _, _)
CleanSegs(rooted, segs, out) ==
    IF segs = <<>> THEN out
    ELSE LET s == Head(segs)
             rest == Tail(segs)
         IN  IF s = "" \/ s = "." THEN CleanSegs(rooted, rest, out)
             ELSE IF s = ".."
                  THEN IF out # <<>> /\ Last(out) # ".."
                       THEN CleanSegs(rooted, rest, Front(out))
                       ELSE IF rooted
                            THEN CleanSegs(rooted, rest, out)
                            ELSE CleanSegs(rooted, rest, Append(out, ".."))
                  ELSE CleanSegs(rooted, rest, Append(out, s))

\* normalizePath: Clean, strip the leading "/", map "" to ".".
normalizePath(p) == CleanSegs(p.abs, p.segs, <<>>)

\* path.Dir of an npath.
Dir(np) == IF Len(np) <= 1 THEN Root ELSE Front(np)

\* The proper ancestors of np below ".", shallowest first.
Ancestors(np) == [i \in 1..(Len(np) - 1) |-> SubSeq(np, 1, i)]

(***************************************************************************)
(* Byte strings.  A byte string is what a JSON decoder would find in it    *)
(* (json = FALSE: not a JSON document) together with its length; id tells  *)
(* apart byte strings that are not documents, cut marks a truncated copy,  *)
(* tail counts the white space that follows the document.                  *)
(***************************************************************************)
NoDigest == [alg |-> "", enc |-> ""]

Platform(os, arch, variant) ==
    [OS |-> os, Architecture |-> arch, Variant |-> variant, OSVersion |-> "",
     OSFeatures |-> <<>>]

NilPlatform == [nil |-> TRUE, v |-> Platform("", "", "")]

Ptr(v) == [nil |-> FALSE, v |-> v]

Descriptor(mediaType, dgst, size, platform) ==
    [MediaType |-> mediaType, Digest |-> dgst, Size |-> size, Platform |-> platform]

NoDesc == Descriptor("", NoDigest, 0, NilPlatform)

NoAnnotations == [k \in {} |-> ""]

Blank ==
    [json |-> TRUE, id |-> 0, len |-> 1, cut |-> FALSE,
     mediaType |-> "", manifests |-> <<>>, config |-> NoDesc, layers |-> <<>>,
     annotations |-> NoAnnotations, diffIDs |-> <<>>, os |-> "",
     architecture |-> "", variant |-> "", osVersion |-> "", osFeatures |-> <<>>,
     payload |-> "", imageLayoutVersion |-> "", tail |-> 0]

RawBytes(id, len) == [Blank EXCEPT !.json = FALSE, !.id = id, !.len = len]

NoBytes == RawBytes(0, 0)

\* The first n bytes of c, n < c.len.
Truncate(c, n) == [c EXCEPT !.json = FALSE, !.len = n, !.cut = TRUE]

(***************************************************************************)
(* Files handed to Add.                                                    *)
(*   IsDir    Stat().IsDir()                                               *)
(*   Size     Stat().Size()                                                *)
(*   len      number of bytes the reader really yields                     *)
(*   content  those bytes                                                  *)
(*   statErr  Stat (or tar.FileInfoHeader) fails                           *)
(***************************************************************************)
File(size, len, mtime) ==
    [IsDir |-> FALSE, Size |-> size, len |-> len, Mode |-> Mode0644,
     ModTime |-> mtime, statErr |-> FALSE, content |-> RawBytes(1, len)]

DirFile(mode, mtime) ==
    [IsDir |-> TRUE, Size |-> 0, len |-> 0, Mode |-> mode,
     ModTime |-> mtime, statErr |-> FALSE, content |-> NoBytes]

BadStat == [File(1, 1, 1) EXCEPT !.statErr = TRUE]

(***************************************************************************)
(* The sink and the tar.Writer on top of it.                               *)
(*   stream  what has reached the sink: headers, data and footers          *)
(*   left    how many more writes the sink accepts (-1: no limit)          *)
(*   curr    bytes of the current entry that are still to be written       *)
(***************************************************************************)
Unlimited == -1

NewWriter(left) == [stream |-> <<>>, left |-> left, curr |-> 0]

Hdr(name, typeflag, mode, mtime, size) ==
    [kind |-> "hdr", Name |-> name, Typeflag |-> typeflag, Mode |-> mode,
     ModTime |-> mtime, Size |-> size, content |-> NoBytes]

Data(n, content) ==
    [kind |-> "data", Name |-> Root, Typeflag |-> "", Mode |-> 0,
     ModTime |-> 0, Size |-> n, content |-> content]

Footer ==
    [kind |-> "footer", Name |-> Root, Typeflag |-> "", Mode |-> 0,
     ModTime |-> 0, Size |-> 0, content |-> NoBytes]

\* One write to the sink.
SinkWrite(tw, item) ==
    IF tw.left = 0
    THEN [tw |-> tw, err |-> RawErr("sink write failed")]
    ELSE [tw |-> [tw EXCEPT !.stream = Append(@, item),
                            !.left = IF @ = Unlimited THEN @ ELSE @ - 1],
          err |-> Nil]

\* tar.Writer.WriteHeader: flush the previous entry, then write the header.
WriteHeader(tw, hdr) ==
    IF tw.curr > 0
    THEN [tw |-> tw, err |-> RawErr("archive/tar: missed writing bytes")]
    ELSE LET w == SinkWrite(tw, hdr)
         IN  IF w.err # Nil THEN w
             ELSE [tw |-> [w.tw EXCEPT !.curr = hdr.Size], err |-> Nil]

\* io.Copy(tw, file): at most curr bytes are accepted.
Copy(tw, file) ==
    LET n == Min(file.len, tw.curr)
        w == IF n > 0
             THEN SinkWrite(tw, Data(n, IF n = file.len THEN file.content
                                        ELSE Truncate(file.content, n)))
             ELSE [tw |-> tw, err |-> Nil]
    IN  IF w.err # Nil THEN w
        ELSE [tw |-> [w.tw EXCEPT !.curr = @ - n],
              err |-> IF file.len > tw.curr
                      THEN RawErr("archive/tar: write too long")
                      ELSE Nil]

\* tar.Writer.Close: flush, then the footer.
twClose(tw) ==
    IF tw.curr > 0
    THEN [tw |-> tw, err |-> RawErr("archive/tar: missed writing bytes")]
    ELSE SinkWrite(tw, Footer)

(***************************************************************************)
(* tarbuild.Builder                                                        *)
(***************************************************************************)
EmptyMap == [x \in {} |-> TypeReg]

NewBuilder(left, mtime) ==
    [DefaultModTime |-> mtime, tw |-> NewWriter(left), err |-> Nil,
     entries |-> EmptyMap]

\* A plausible slip: the parent is written before its own ancestors.
RECURSIVE ensureParentDirectory_deepestFirst(_, _)
ensureParentDirectory_deepestFirst(bb, np) ==
    LET parent == Dir(np) IN
    IF parent = Root THEN [b |-> bb, err |-> Nil]
    ELSE IF parent \in DOMAIN bb.entries
    THEN IF bb.entries[parent] # TypeDir
         THEN [b |-> bb, err |-> AddError(parent, ErrDuplicateNonDir)]
         ELSE [b |-> bb, err |-> Nil]
    ELSE LET b1 == [bb EXCEPT !.entries = (parent :> TypeDir) @@ @]
             w == WriteHeader(b1.tw,
                      Hdr(parent, TypeDir, Mode0755, b1.DefaultModTime, 0))
         IN  IF w.err # Nil
             THEN [b |-> [b1 EXCEPT !.tw = w.tw], err |-> w.err]
             ELSE ensureParentDirectory_deepestFirst([b1 EXCEPT !.tw = w.tw], parent)

\* A plausible slip: an existing non-directory parent is accepted.
RECURSIVE ensureParentDirectory_noTypeCheck(_, _)
ensureParentDirectory_noTypeCheck(bb, np) ==
    LET parent == Dir(np) IN
    IF parent = Root THEN [b |-> bb, err |-> Nil]
    ELSE IF parent \in DOMAIN bb.entries
    THEN [b |-> bb, err |-> Nil]
    ELSE LET r == ensureParentDirectory_noTypeCheck(bb, parent) IN
         IF r.err # Nil THEN r
         ELSE LET b1 == [r.b EXCEPT !.entries = (parent :> TypeDir) @@ @]
                  w == WriteHeader(b1.tw,
                           Hdr(parent, TypeDir, Mode0755, b1.DefaultModTime, 0))
              IN  [b |-> [b1 EXCEPT !.tw = w.tw], err |-> w.err]

\* Builder.ensureParentDirectory
RECURSIVE ensureParentDirectory(_, _)
ensureParentDirectory(bb, np) ==
    LET parent == Dir(np) IN
    IF parent = Root THEN [b |-> bb, err |-> Nil]
    ELSE IF parent \in DOMAIN bb.entries
    THEN IF bb.entries[parent] # TypeDir
         THEN [b |-> bb, err |-> AddError(parent, ErrDuplicateNonDir)]
         ELSE [b |-> bb, err |-> Nil]
    ELSE LET r == ensureParentDirectory(bb, parent) IN
         IF r.err # Nil THEN r
         ELSE LET b1 == [r.b EXCEPT !.entries = (parent :> TypeDir) @@ @]
                  w == WriteHeader(b1.tw,
                           Hdr(parent, TypeDir, Mode0755, b1.DefaultModTime, 0))
              IN  [b |-> [b1 EXCEPT !.tw = w.tw], err |-> w.err]

\* Add from the call of ensureParentDirectory on: the entry is new.
AddEntry(bb, np, file) ==
    LET b1 == [bb EXCEPT !.entries = (np :> TypeReg) @@ @]
        r == ensureParentDirectory(b1, np)
    IN  IF r.err # Nil THEN r
        ELSE IF file.statErr THEN [b |-> r.b, err |-> RawErr("stat failed")]
        ELSE LET hdr == Hdr(np, IF file.IsDir THEN TypeDir ELSE TypeReg,
                            file.Mode, file.ModTime,
                            IF file.IsDir THEN 0 ELSE file.Size)
                 w == WriteHeader(r.b.tw, hdr)
             IN  IF w.err # Nil
                 THEN [b |-> [r.b EXCEPT !.tw = w.tw], err |-> w.err]
                 ELSE IF file.IsDir
                      THEN [b |-> [r.b EXCEPT !.tw = w.tw], err |-> Nil]
                      ELSE LET c == Copy(w.tw, file)
                           IN  [b |-> [r.b EXCEPT !.tw = c.tw], err |-> c.err]

\* A plausible slip: the b.entries lookup for np is missing.
AddBody_noDuplicateCheck(bb, np, file) == AddEntry(bb, np, file)

\* The body of Add after the b.err check; err is the value Add returns.
AddBody(bb, np, file) ==
    IF np \in DOMAIN bb.entries
    THEN [b |-> bb, err |-> ErrDuplicateEntry]
    ELSE AddEntry(bb, np, file)

\* The deferred function of Add: what b.err becomes for a returned error.
Recorded(np, err) ==
    IF err.type = "AddError" THEN err ELSE AddError(np, err.Err)

\* A plausible slip: the deferred function does not record the error.
AddOp_forgetsError(bb, path, file) ==
    IF bb.err # Nil THEN [b |-> bb, err |-> bb.err]
    ELSE AddBody(bb, normalizePath(path), file)

\* Builder.Add
AddOp(bb, path, file) ==
    IF bb.err # Nil THEN [b |-> bb, err |-> bb.err]
    ELSE LET np == normalizePath(path)
             r == AddBody(bb, np, file)
         IN  IF r.err # Nil
             THEN [b |-> [r.b EXCEPT !.err = Recorded(np, r.err)], err |-> r.err]
             ELSE r

\* Builder.AddContent
AddContentOp(bb, path, content) ==
    AddOp(bb, path, [File(content.len, content.len, bb.DefaultModTime)
                        EXCEPT !.content = content])

\* A plausible slip: a successful Close leaves the builder open.
CloseOp_staysOpen(bb) ==
    IF bb.err # Nil THEN [b |-> bb, err |-> bb.err]
    ELSE LET c == twClose(bb.tw)
         IN  IF c.err # Nil
             THEN [b |-> [bb EXCEPT !.tw = c.tw, !.err = c.err], err |-> c.err]
             ELSE [b |-> [bb EXCEPT !.tw = c.tw], err |-> Nil]

\* Builder.Close
CloseOp(bb) ==
    IF bb.err # Nil THEN [b |-> bb, err |-> bb.err]
    ELSE LET c == twClose(bb.tw)
         IN  IF c.err # Nil
             THEN [b |-> [bb EXCEPT !.tw = c.tw, !.err = c.err], err |-> c.err]
             ELSE [b |-> [bb EXCEPT !.tw = c.tw, !.err = ErrBuilderClosed],
                   err |-> Nil]

(***************************************************************************)
(* Inputs of the Builder specification                                     *)
(***************************************************************************)
RawPaths ==
    { RawPath(FALSE, <<"etc", "x">>),                       \* etc/x
      RawPath(TRUE,  <<"etc", "x">>),                       \* /etc/x
      RawPath(FALSE, <<".", "home", "..", "etc", "t", "..", ".", "x">>),
      RawPath(FALSE, <<"..", "..", "..", "etc", ".", "x">>),
      RawPath(TRUE,  <<"">>),                               \* /
      RawPath(FALSE, <<"..", "">>),                         \* ../
      RawPath(FALSE, <<"etc">>),                            \* etc
      RawPath(TRUE,  <<"etc", "x", "y", "z">>) }            \* /etc/x/y/z

Files ==
    { File(1, 1, 1),            \* a regular file
      File(2, 1, 1),            \* fewer bytes than Stat reports
      File(1, 2, 1),            \* more bytes than Stat reports
      DirFile(Mode01777, 1),    \* a directory
      BadStat }

SinkBudgets == (0..MaxSink) \cup {Unlimited}

DefaultModTimes == {0, 2}

NoCall == [op |-> "none", path |-> RawPath(FALSE, <<>>), np |-> Root, err |-> Nil]

Call(op, path, err) ==
    [op |-> op, path |-> path, np |-> normalizePath(path), err |-> err]

NoArchive == [state |-> "unused"]

NoImage == [state |-> "unused"]

NoLayerBuilder == [state |-> "unused"]

NoLoad == [state |-> "unused"]

(***************************************************************************)
(* Spec: one Builder                                                       *)
(***************************************************************************)
Init ==
    /\ \E left \in SinkBudgets, t \in DefaultModTimes : b = NewBuilder(left, t)
    /\ ret = NoCall
    /\ nOps = 0
    /\ ar = NoArchive
    /\ im = NoImage
    /\ lb = NoLayerBuilder
    /\ ld = NoLoad

Add(path, file) ==
    /\ nOps < MaxOps
    /\ LET r == AddOp(b, path, file)
       IN  /\ b' = r.b
           /\ ret' = Call("Add", path, r.err)
    /\ nOps' = nOps + 1
    /\ UNCHANGED <<ar, im, lb, ld>>

AddContent(path) ==
    /\ nOps < MaxOps
    /\ LET r == AddContentOp(b, path, RawBytes(2, 1))
       IN  /\ b' = r.b
           /\ ret' = Call("AddContent", path, r.err)
    /\ nOps' = nOps + 1
    /\ UNCHANGED <<ar, im, lb, ld>>

Close ==
    /\ nOps < MaxOps
    /\ LET r == CloseOp(b)
       IN  /\ b' = r.b
           /\ ret' = [NoCall EXCEPT !.op = "Close", !.err = r.err]
    /\ nOps' = nOps + 1
    /\ UNCHANGED <<ar, im, lb, ld>>

Next ==
    \/ \E p \in RawPaths, f \in Files : Add(p, f)
    \/ \E p \in RawPaths : AddContent(p)
    \/ Close

Spec == Init /\ [][Next]_vars

(***************************************************************************)
(* Properties of the Builder (checked under Spec)                          *)
(***************************************************************************)
stream == b.tw.stream

IsAddCall(r) == r.op \in {"Add", "AddContent"}

HeaderAt(s, i) == s[i].kind = "hdr"

FooterCount(s) == Cardinality({i \in 1..Len(s) : s[i].kind = "footer"})

\* What the step appended to the sink.
Appended == SubSeq(b'.tw.stream, Len(stream) + 1, Len(b'.tw.stream))

\* The ancestors of np that the builder has not recorded, shallowest first,
\* as the directory headers the builder documents for them.
MissingDirHeaders(np) ==
    LET missing == SelectSeq(Ancestors(np), LAMBDA a : a \notin DOMAIN b.entries)
    IN  [i \in 1..Len(missing) |->
            Hdr(missing[i], TypeDir, Mode0755, b.DefaultModTime, 0)]

\* C4 (state part): every emitted entry is preceded by a directory entry for
\* each of its proper ancestors, and no directory path is emitted twice.
C4_StreamWellFormed ==
    /\ \A i \in 1..Len(stream) : HeaderAt(stream, i) =>
          \A k \in 1..(Len(stream[i].Name) - 1) :
             \E j \in 1..(i - 1) :
                /\ HeaderAt(stream, j)
                /\ stream[j].Typeflag = TypeDir
                /\ stream[j].Name = SubSeq(stream[i].Name, 1, k)
    /\ \A i, j \in 1..Len(stream) :
          (/\ i # j
           /\ HeaderAt(stream, i) /\ HeaderAt(stream, j)
           /\ stream[i].Typeflag = TypeDir /\ stream[j].Typeflag = TypeDir)
          => stream[i].Name # stream[j].Name

\* C4 (step part): an Add or AddContent first emits the missing ancestors of
\* its path, shallowest first, with mode 0755 and DefaultModTime, and an add
\* that succeeds emits its own header right after them.
C4_MissingParentsFirst ==
    (b.err = Nil /\ IsAddCall(ret'))
    => LET want == MissingDirHeaders(ret'.np)
       IN  /\ IsPrefix(Appended, want) \/ IsPrefix(want, Appended)
           /\ ret'.err = Nil =>
                 /\ IsPrefix(want, Appended)
                 /\ Len(Appended) > Len(want)
                 /\ Appended[Len(want) + 1].kind = "hdr"
                 /\ Appended[Len(want) + 1].Name = ret'.np

\* C4: in the emitted stream every entry at path p is preceded by a directory
\* entry for each proper ancestor of p; the missing ancestors of a new path
\* are emitted shallowest-first before it with mode 0755 and the builder's
\* DefaultModTime; no directory path is emitted more than once.
C4_ParentsPrecedeEntries ==
    /\ []C4_StreamWellFormed
    /\ [][C4_MissingParentsFirst]_vars

\* C4 witness: a file three directories deep was written after the three
\* synthesized directories.
C4_Witness ==
    \E i \in 1..Len(stream) :
       /\ HeaderAt(stream, i)
       /\ stream[i].Typeflag = TypeReg
       /\ Len(stream[i].Name) = 4
       /\ i >= 4
       /\ stream[i - 1] = Hdr(Front(stream[i].Name), TypeDir, Mode0755,
                              b.DefaultModTime, 0)

C5_ClosedStep ==
    b.err = ErrBuilderClosed => (ret'.err = ErrBuilderClosed /\ b' = b)

C5_SuccessfulClose ==
    (ret'.op = "Close" /\ ret'.err = Nil)
    => /\ b.err = Nil
       /\ b'.err = ErrBuilderClosed
       /\ b'.tw.stream = Append(stream, Footer)

\* C5: after Close returns success every later Add, AddContent or Close
\* returns the builder-closed error and writes nothing more to the sink; the
\* footer is written exactly once, and only by that successful Close.
C5_ClosedIsFinal ==
    /\ [](FooterCount(stream) <= 1)
    /\ [](FooterCount(stream) = 1 <=> b.err = ErrBuilderClosed)
    /\ [][C5_ClosedStep]_vars
    /\ [][C5_SuccessfulClose]_vars

\* C5 witness: an add was attempted on a closed builder.
C5_Witness ==
    /\ b.err = ErrBuilderClosed
    /\ IsAddCall(ret)
    /\ ret.err = ErrBuilderClosed
    /\ FooterCount(stream) = 1

C6_FailureRecorded ==
    (b.err = Nil /\ IsAddCall(ret') /\ ret'.err # Nil)
    => /\ b'.err.type = "AddError"
       /\ b'.err.Err = ret'.err.Err

C6_FailedStep ==
    (b.err # Nil /\ b.err # ErrBuilderClosed)
    => (ret'.err = b.err /\ b' = b)

\* C6: once an Add or AddContent has failed, nothing more (no entry, no
\* footer) reaches the sink and every later Add, AddContent and Close returns
\* the error recorded for that first failure.
C6_FirstFailureSticks ==
    /\ [][C6_FailureRecorded]_vars
    /\ [][C6_FailedStep]_vars
    /\ []((b.err # Nil /\ b.err # ErrBuilderClosed) => FooterCount(stream) = 0)

\* C6 witness: Close was called after a failed add and returned its error.
C6_Witness ==
    /\ b.err.type = "AddError"
    /\ ret.op = "Close"
    /\ ret.err = b.err
    /\ Len(stream) > 0

C7_DuplicateStep ==
    (b.err = Nil /\ IsAddCall(ret') /\ ret'.np \in DOMAIN b.entries)
    => /\ ret'.err = ErrDuplicateEntry
       /\ b'.tw = b.tw
       /\ b'.err = AddError(ret'.np, ErrDuplicateEntry.Err)

C7_CloseReports ==
    (IsDuplicateEntry(b.err) /\ ret'.op = "Close") => ret'.err = b.err

\* C7: on a builder that has not failed, adding an entry whose normalized
\* path is already recorded (added explicitly or synthesized as a parent)
\* fails with a duplicate-entry error, emits nothing, and Close then reports
\* that error.
C7_DuplicateRejected ==
    /\ [][C7_DuplicateStep]_vars
    /\ [][C7_CloseReports]_vars

\* C7 witness: Close reports a duplicate of a synthesized parent directory.
C7_Witness ==
    /\ ret.op = "Close"
    /\ ret.err.type = "AddError"
    /\ ret.err.Err = ErrDuplicateEntry.Err
    /\ \E i \in 1..Len(stream) :
          stream[i] = Hdr(ret.err.Path, TypeDir, Mode0755, b.DefaultModTime, 0)

\* Some proper ancestor of np below the archive root was written as a
\* non-directory.
HasFileAncestor(np) ==
    \E i \in 1..Len(stream) :
       /\ HeaderAt(stream, i)
       /\ stream[i].Typeflag = TypeReg
       /\ stream[i].Name \in {Ancestors(np)[k] : k \in 1..(Len(np) - 1)}
       /\ Len(stream[i].Name) < Len(np)
       /\ IsPrefix(stream[i].Name, np)

C8_FileAncestorStep ==
    (b.err = Nil /\ IsAddCall(ret') /\ HasFileAncestor(ret'.np))
    => /\ IsDuplicateEntry(ret'.err)
       /\ b'.tw = b.tw
       /\ IsDuplicateEntry(b'.err)

\* C8: adding an entry at p when a proper ancestor of p (a path below the
\* archive root) was added as a non-directory fails with a duplicate-entry error at any nesting depth, and
\* neither a directory for an ancestor of p nor p itself is emitted.
C8_FileAncestorRejected == [][C8_FileAncestorStep]_vars

\* C8 witness: the file ancestor is two levels above the rejected path.
C8_Witness ==
    /\ IsAddCall(ret)
    /\ IsDuplicateEntry(ret.err)
    /\ ret.err.type = "AddError"
    /\ Len(ret.np) = Len(ret.err.Path) + 2
    /\ b.err = ret.err

\* The normalized path is "." or climbs above the archive root.
OutsideArchive(np) == np = Root \/ Head(np) = ".."

C9_OutsideStep ==
    (b.err = Nil /\ IsAddCall(ret') /\ OutsideArchive(ret'.np))
    => /\ IsEntryOutsideOfArchive(ret'.err)
       /\ b'.tw = b.tw
       /\ IsEntryOutsideOfArchive(b'.err)

\* C9: Add/AddContent with a path that normalizes to "." or escapes the
\* archive root fails with an entry-outside-archive error, writes nothing for
\* that path, and Close then reports that error.
C9_OutsideRejected == [][C9_OutsideStep]_vars

EtcXSpellings ==
    { RawPath(FALSE, <<"etc", "x">>),
      RawPath(TRUE,  <<"etc", "x">>),
      RawPath(FALSE, <<".", "home", "..", "etc", "t", "..", ".", "x">>),
      RawPath(FALSE, <<"..", "..", "..", "etc", ".", "x">>) }

\* C10: the spellings etc/x, /etc/x, ./home/../etc/t/.././x and
\* ../../../etc/./x all produce the entry name etc/x, and no emitted name
\* contains a "." or ".." segment.
C10_Canonical ==
    /\ (IsAddCall(ret) /\ ret.path \in EtcXSpellings) => ret.np = <<"etc", "x">>
    /\ \A i \in 1..Len(stream) : HeaderAt(stream, i) =>
          \A k \in 1..Len(stream[i].Name) : stream[i].Name[k] \notin {".", ".."}

(***************************************************************************)
(* Digests (go-digest) and media types                                     *)
(***************************************************************************)
Algorithms == {"sha256", "sha512"}

\* Path components of the model that are not hex strings.
NotHex == {"README", "nothex", "blobs", "."}

\* A byte string written out; equal byte strings are written out equally and
\* different ones differently.
RECURSIVE Join(_)
Join(strs) == IF strs = <<>> THEN "" ELSE Head(strs) \o ";" \o Join(Tail(strs))

RECURSIVE JoinMap(_, _)
JoinMap(m, keys) ==
    IF keys = {} THEN ""
    ELSE LET k == CHOOSE x \in keys : TRUE
         IN  k \o "=" \o m[k] \o ";" \o JoinMap(m, keys \ {k})

Flag(x) == IF x THEN "t" ELSE "f"

PlatformText(p) ==
    p.OS \o "/" \o p.Architecture \o "/" \o p.Variant \o "/" \o p.OSVersion
         \o "/" \o Join(p.OSFeatures)

DescriptorText(d) ==
    "(" \o d.MediaType \o "," \o d.Digest.alg \o ":" \o d.Digest.enc \o ","
        \o ToString(d.Size) \o ","
        \o (IF d.Platform.nil THEN "nil" ELSE PlatformText(d.Platform.v)) \o ")"

Text(c) ==
    "{" \o Flag(c.json) \o "," \o ToString(c.id) \o "," \o ToString(c.len) \o ","
        \o Flag(c.cut) \o "," \o c.mediaType \o ",["
        \o Join([i \in 1..Len(c.manifests) |-> DescriptorText(c.manifests[i])])
        \o "]," \o DescriptorText(c.config) \o ",["
        \o Join([i \in 1..Len(c.layers) |-> DescriptorText(c.layers[i])])
        \o "],{" \o JoinMap(c.annotations, DOMAIN c.annotations) \o "},["
        \o Join([i \in 1..Len(c.diffIDs) |->
                     c.diffIDs[i].alg \o ":" \o c.diffIDs[i].enc])
        \o "]," \o c.os \o "," \o c.architecture \o "," \o c.variant \o ","
        \o c.osVersion \o ",[" \o Join(c.osFeatures) \o "]," \o c.payload \o ","
        \o c.imageLayoutVersion \o "}" \o ToString(c.tail)

\* The hex form of the alg hash of a byte string; distinct byte strings have
\* distinct hashes.
Hex(alg, bytes) == alg \o "#" \o Text(bytes)

\* digest.NewDigestFromEncoded
NewDigestFromEncoded(alg, enc) == [alg |-> alg, enc |-> enc]

\* digest.FromBytes: the canonical algorithm is sha256.
FromBytes(bytes) == NewDigestFromEncoded("sha256", Hex("sha256", bytes))

\* Digest.Validate
Validate(dgst) == dgst.alg \in Algorithms /\ dgst.enc \notin NotHex

\* Digest.Verifier() fed with bytes, then Verified()
Verified(dgst, bytes) == dgst.enc = Hex(dgst.alg, bytes)

MediaTypeImageIndex == "application/vnd.oci.image.index.v1+json"
MediaTypeDockerManifestList == "application/vnd.docker.distribution.manifest.list.v2+json"
MediaTypeImageManifest == "application/vnd.oci.image.manifest.v1+json"
MediaTypeDockerManifest == "application/vnd.docker.distribution.manifest.v2+json"
MediaTypeImageConfig == "application/vnd.oci.image.config.v1+json"
MediaTypeImageLayerGzip == "application/vnd.oci.image.layer.v1.tar+gzip"
MediaTypeDockerLayerGzip == "application/vnd.docker.image.rootfs.diff.tar.gzip"
MediaTypeDockerForeignLayerGzip == "application/vnd.docker.image.rootfs.foreign.diff.tar.gzip"
MediaTypeImageLayerNonDistributable == "application/vnd.oci.image.layer.nondistributable.v1.tar"
MediaTypeImageLayerNonDistributableGzip == "application/vnd.oci.image.layer.nondistributable.v1.tar+gzip"

SupportedIndexMediaTypes == {MediaTypeImageIndex, MediaTypeDockerManifestList}

SupportedManifestMediaTypes == {MediaTypeImageManifest, MediaTypeDockerManifest}

ImageLayoutFile == "oci-layout"

ImageLayoutVersion == "1.0.0"

(***************************************************************************)
(* The Go values decoded from and encoded to JSON                          *)
(***************************************************************************)
\* A Go slice: the array it points into, the elements it sees, its capacity.
NilSlice == [arr |-> "nil", vals |-> <<>>, cap |-> 0]

\* The capacity encoding/json leaves a decoded slice of n elements with:
\* go1.17 grows it to at least 4, later decoders grow it as append does.
Builds == {"go1.17", "go1.20"}

DecodedSlack(n, build) ==
    IF n >= 4 THEN 0
    ELSE IF build = "go1.17" THEN 4 - n
    ELSE IF n = 3 THEN 1 ELSE 0

Index(mediaType, manifests) == [MediaType |-> mediaType, Manifests |-> manifests]

ZeroIndex == Index("", <<>>)

Manifest(mediaType, config, layers, annotations) ==
    [MediaType |-> mediaType, Config |-> config, Layers |-> layers,
     Annotations |-> annotations]

ZeroManifest == Manifest("", NoDesc, <<>>, NoAnnotations)

ZeroConfig ==
    [DiffIDs |-> NilSlice, OS |-> "", Architecture |-> "", Variant |-> "",
     OSVersion |-> "", OSFeatures |-> <<>>, payload |-> ""]

ZeroImage ==
    [Layers |-> <<>>, Config |-> ZeroConfig, Platform |-> Platform("", "", ""),
     Annotations |-> NoAnnotations]

JSONError == RawErr("invalid JSON")

\* json.Unmarshal into specsv1.Index
DecodeIndex(bytes) ==
    IF ~bytes.json THEN [err |-> JSONError, v |-> ZeroIndex]
    ELSE [err |-> Nil, v |-> Index(bytes.mediaType, bytes.manifests)]

\* json.Unmarshal into specsv1.Manifest
DecodeManifest(bytes) ==
    IF ~bytes.json THEN [err |-> JSONError, v |-> ZeroManifest]
    ELSE [err |-> Nil,
          v |-> Manifest(bytes.mediaType, bytes.config, bytes.layers,
                         bytes.annotations)]

\* json.Unmarshal into image.Config.  The decoder allocates the array behind
\* rootfs.diff_ids; arr names it and build decides its spare capacity.
DecodeConfig(bytes, arr, build) ==
    IF ~bytes.json THEN [err |-> JSONError, v |-> ZeroConfig]
    ELSE [err |-> Nil,
          v |-> [DiffIDs |-> IF bytes.diffIDs = <<>> THEN NilSlice
                             ELSE [arr |-> arr, vals |-> bytes.diffIDs,
                                   cap |-> Len(bytes.diffIDs)
                                             + DecodedSlack(Len(bytes.diffIDs), build)],
                 OS |-> bytes.os, Architecture |-> bytes.architecture,
                 Variant |-> bytes.variant, OSVersion |-> bytes.osVersion,
                 OSFeatures |-> bytes.osFeatures, payload |-> bytes.payload]]

\* json.Unmarshal into specsv1.ImageLayout
DecodeLayout(bytes) ==
    IF ~bytes.json THEN [err |-> JSONError, v |-> ""]
    ELSE [err |-> Nil, v |-> bytes.imageLayoutVersion]

\* json.Marshal of a specsv1.Index
MarshalIndex(idx) ==
    [Blank EXCEPT !.mediaType = idx.MediaType, !.manifests = idx.Manifests]

\* json.Marshal of a specsv1.Manifest
MarshalManifest(m) ==
    [Blank EXCEPT !.mediaType = m.MediaType, !.config = m.Config,
                  !.layers = m.Layers, !.annotations = m.Annotations]

\* json.Marshal of an image.Config
MarshalConfig(c) ==
    [Blank EXCEPT !.diffIDs = c.DiffIDs.vals, !.os = c.OS,
                  !.architecture = c.Architecture, !.variant = c.Variant,
                  !.osVersion = c.OSVersion, !.osFeatures = c.OSFeatures,
                  !.payload = c.payload]

\* json.Marshal of a specsv1.ImageLayout
MarshalLayout(version) == [Blank EXCEPT !.imageLayoutVersion = version]

(***************************************************************************)
(* Loader implementations: the archive layout and a remote store           *)
(***************************************************************************)
EmptyBlobs == [d \in {} |-> NoBytes]

NilIndex == [nil |-> TRUE, v |-> ZeroIndex]

NilLayout == [nil |-> TRUE, v |-> ""]

EmptyLayout == [Layout |-> NilLayout, Index |-> NilIndex, Blobs |-> EmptyBlobs]

UnknownDigest == [ok |-> FALSE, dgst |-> NoDigest]

\* The buffer a json.Decoder asks its reader to fill, in the unit of len.
MinRead == 2

\* What has passed an io.TeeReader once a json.Decoder has decoded the
\* document of bytes from it: the decoder reads chunk by chunk until the
\* document is complete, and what follows the last chunk is never read.
Seen(bytes, chunk) ==
    [bytes EXCEPT !.tail = Min(@, (chunk - (bytes.len % chunk)) % chunk)]

\* loadedLayout as a Loader
ArchiveLoader(ll) ==
    [kind |-> "archive", Index |-> ll.Index.v, Blobs |-> ll.Blobs,
     root |-> NoBytes, rootDigest |-> UnknownDigest, chunk |-> MinRead]

\* A remote loader: whatever the store serves for the root and each digest.
RemoteLoader(root, blobs, rootDigest) ==
    [kind |-> "remote", Index |-> ZeroIndex, Blobs |-> blobs, root |-> root,
     rootDigest |-> rootDigest, chunk |-> MinRead]

\* Loader.OpenRootManifest
OpenRootManifest(src) ==
    [err |-> Nil,
     bytes |-> IF src.kind = "archive" THEN MarshalIndex(src.Index) ELSE src.root]

\* Loader.OpenBlob
OpenBlob(src, dgst) ==
    IF dgst \in DOMAIN src.Blobs
    THEN [err |-> Nil, bytes |-> src.Blobs[dgst]]
    ELSE [err |-> RawErr("missing blob"), bytes |-> NoBytes]

\* Loader.OpenManifest
OpenManifest(src, dgst) == OpenBlob(src, dgst)

(***************************************************************************)
(* internal/ociarchive: reading a layout from a tar stream                 *)
(***************************************************************************)
\* A tar entry as tar.Reader.Next presents it; Name is split at the slashes.
TarEntry(name, typeflag, content) ==
    [Name |-> name, Typeflag |-> typeflag, content |-> content]

\* path.Base of a slash-separated name
Base(name) ==
    LET c == CleanSegs(FALSE, name, <<>>) IN IF c = <<>> THEN "." ELSE Last(c)

\* path.Base(path.Dir(name))
BaseOfDir(name) ==
    LET c == Dir(CleanSegs(FALSE, name, <<>>)) IN IF c = <<>> THEN "." ELSE Last(c)

\* strings.HasPrefix(name, "blobs/")
UnderBlobs(name) == Len(name) >= 2 /\ name[1] = "blobs"

\* A plausible slip: the blob is stored without consulting the verifier.
populateBlob_unverified(ll, name, content) ==
    Bind(NewDigestFromEncoded(BaseOfDir(name), Base(name)), LAMBDA dgst :
        IF ~Validate(dgst)
        THEN [ll |-> ll, err |-> RawErr("blob name does not match any supported digest format")]
        ELSE [ll |-> [ll EXCEPT !.Blobs = (dgst :> content) @@ @], err |-> Nil])

\* loadedLayout.populateBlob
populateBlob(ll, name, content) ==
    Bind(NewDigestFromEncoded(BaseOfDir(name), Base(name)), LAMBDA dgst :
        IF ~Validate(dgst)
        THEN [ll |-> ll, err |-> RawErr("blob name does not match any supported digest format")]
        ELSE IF ~Verified(dgst, content)
        THEN [ll |-> ll, err |-> RawErr("content does not match digest indicated by name")]
        ELSE [ll |-> [ll EXCEPT !.Blobs = (dgst :> content) @@ @], err |-> Nil])

\* A plausible slip: everything under blobs/ is taken for a blob, whatever
\* its type.
populateEntry_anyType(ll, e) ==
    IF UnderBlobs(e.Name)
    THEN populateBlob(ll, e.Name, e.content)
    ELSE IF e.Name = <<"index.json">>
    THEN Bind(DecodeIndex(e.content), LAMBDA d :
             [ll |-> IF d.err = Nil THEN [ll EXCEPT !.Index = Ptr(d.v)] ELSE ll,
              err |-> d.err])
    ELSE IF e.Name = <<ImageLayoutFile>>
    THEN Bind(DecodeLayout(e.content), LAMBDA d :
             [ll |-> IF d.err = Nil THEN [ll EXCEPT !.Layout = Ptr(d.v)] ELSE ll,
              err |-> d.err])
    ELSE [ll |-> ll, err |-> Nil]

\* One iteration of the loop of populateFromTar.
populateEntry(ll, e) ==
    IF UnderBlobs(e.Name) /\ e.Typeflag = TypeReg
    THEN populateBlob(ll, e.Name, e.content)
    ELSE IF e.Name = <<"index.json">>
    THEN Bind(DecodeIndex(e.content), LAMBDA d :
             [ll |-> IF d.err = Nil THEN [ll EXCEPT !.Index = Ptr(d.v)] ELSE ll,
              err |-> d.err])
    ELSE IF e.Name = <<ImageLayoutFile>>
    THEN Bind(DecodeLayout(e.content), LAMBDA d :
             [ll |-> IF d.err = Nil THEN [ll EXCEPT !.Layout = Ptr(d.v)] ELSE ll,
              err |-> d.err])
    ELSE [ll |-> ll, err |-> Nil]

\* loadedLayout.populateFromTar
RECURSIVE populateFromTar(_, _)
populateFromTar(ll, entries) ==
    IF entries = <<>> THEN [ll |-> ll, err |-> Nil]
    ELSE Bind(populateEntry(ll, Head(entries)), LAMBDA r :
             IF r.err # Nil THEN r ELSE populateFromTar(r.ll, Tail(entries)))

(***************************************************************************)
(* internal/image: the loader                                              *)
(***************************************************************************)
EmptyCache == <<>>

NewLoader(src) ==
    [src |-> src, rootIndex |-> ZeroIndex, nestedIndexes |-> EmptyCache,
     manifestsByDigest |-> EmptyCache, configsByDigest |-> EmptyCache]

\* A plausible slip: the last writer wins.
LoadOrStore_lastWins(m, k, v) == (k :> v) @@ m

\* sync.Map.LoadOrStore
LoadOrStore(m, k, v) == IF k \in DOMAIN m THEN m ELSE (k :> v) @@ m

\* A plausible slip: the verifier is not asked.
readJSONManifest_unverified(l, dgst) ==
    Bind(OpenManifest(l.src, dgst), LAMBDA o :
        IF o.err # Nil THEN o
        ELSE IF ~o.bytes.json THEN [err |-> JSONError, bytes |-> o.bytes]
        ELSE o)

\* loader.readJSONManifest
readJSONManifest(l, dgst) ==
    Bind(OpenManifest(l.src, dgst), LAMBDA o :
        IF o.err # Nil THEN o
        ELSE IF ~o.bytes.json THEN [err |-> JSONError, bytes |-> o.bytes]
        ELSE IF ~Verified(dgst, Seen(o.bytes, l.src.chunk))
        THEN [err |-> RawErr("content of manifest does not match digest"),
              bytes |-> o.bytes]
        ELSE o)

\* loader.readJSONBlob
readJSONBlob(l, dgst) ==
    Bind(OpenBlob(l.src, dgst), LAMBDA o :
        IF o.err # Nil THEN o
        ELSE IF ~o.bytes.json THEN [err |-> JSONError, bytes |-> o.bytes]
        ELSE IF ~Verified(dgst, Seen(o.bytes, l.src.chunk))
        THEN [err |-> RawErr("content of blob does not match digest"),
              bytes |-> o.bytes]
        ELSE o)

\* loader.getManifest
getManifest(l, dgst) ==
    IF dgst \in DOMAIN l.manifestsByDigest
    THEN [l |-> l, err |-> Nil, v |-> l.manifestsByDigest[dgst]]
    ELSE Bind(readJSONManifest(l, dgst), LAMBDA r :
             IF r.err # Nil THEN [l |-> l, err |-> r.err, v |-> ZeroManifest]
             ELSE Bind(LoadOrStore(l.manifestsByDigest, dgst,
                                   DecodeManifest(r.bytes).v), LAMBDA m :
                      [l |-> [l EXCEPT !.manifestsByDigest = m], err |-> Nil,
                       v |-> m[dgst]]))

\* loader.getConfig
getConfig(l, dgst, build) ==
    IF dgst \in DOMAIN l.configsByDigest
    THEN [l |-> l, err |-> Nil, v |-> l.configsByDigest[dgst]]
    ELSE Bind(readJSONBlob(l, dgst), LAMBDA r :
             IF r.err # Nil THEN [l |-> l, err |-> r.err, v |-> ZeroConfig]
             ELSE Bind(LoadOrStore(l.configsByDigest, dgst,
                           DecodeConfig(r.bytes, "config " \o dgst.enc, build).v),
                       LAMBDA c :
                      [l |-> [l EXCEPT !.configsByDigest = c], err |-> Nil,
                       v |-> c[dgst]]))

\* A plausible slip: the variant of the config is left out.
getPlatformByManifestDescriptor_noVariant(l, md, build) ==
    IF ~md.Platform.nil THEN [l |-> l, err |-> Nil, v |-> md.Platform.v]
    ELSE Bind(getManifest(l, md.Digest), LAMBDA m :
         IF m.err # Nil
         THEN [l |-> m.l, err |-> m.err, v |-> Platform("", "", "")]
         ELSE Bind(getConfig(m.l, m.v.Config.Digest, build), LAMBDA c :
              IF c.err # Nil
              THEN [l |-> c.l, err |-> c.err, v |-> Platform("", "", "")]
              ELSE [l |-> c.l, err |-> Nil,
                    v |-> [OS |-> c.v.OS,
                           Architecture |-> c.v.Architecture,
                           Variant |-> "",
                           OSVersion |-> c.v.OSVersion,
                           OSFeatures |-> c.v.OSFeatures]]))

\* loader.getPlatformByManifestDescriptor
getPlatformByManifestDescriptor(l, md, build) ==
    IF ~md.Platform.nil THEN [l |-> l, err |-> Nil, v |-> md.Platform.v]
    ELSE Bind(getManifest(l, md.Digest), LAMBDA m :
         IF m.err # Nil
         THEN [l |-> m.l, err |-> m.err, v |-> Platform("", "", "")]
         ELSE Bind(getConfig(m.l, m.v.Config.Digest, build), LAMBDA c :
              IF c.err # Nil
              THEN [l |-> c.l, err |-> c.err, v |-> Platform("", "", "")]
              ELSE [l |-> c.l, err |-> Nil,
                    v |-> [OS |-> c.v.OS,
                           Architecture |-> c.v.Architecture,
                           Variant |-> c.v.Variant,
                           OSVersion |-> c.v.OSVersion,
                           OSFeatures |-> c.v.OSFeatures]]))

normalizeLayerMediaType(mediaType) ==
    IF mediaType = MediaTypeDockerLayerGzip THEN MediaTypeImageLayerGzip
    ELSE IF mediaType = MediaTypeDockerForeignLayerGzip
    THEN MediaTypeImageLayerNonDistributableGzip
    ELSE mediaType

\* strings.HasPrefix
HasPrefix(s, prefix) ==
    Len(s) >= Len(prefix) /\ SubSeq(s, 1, Len(prefix)) = prefix

\* A plausible slip: the media type is compared with the plain type alone.
isNondistributableMediaType_exact(mediaType) ==
    mediaType = MediaTypeImageLayerNonDistributable

isNondistributableMediaType(mediaType) ==
    HasPrefix(mediaType, MediaTypeImageLayerNonDistributable)

\* The OpenBlob closure of a loaded layer: it asks the loader for dgst.
LoaderBlob(dgst) == [from |-> "loader", dgst |-> dgst, bytes |-> NoBytes]

\* The OpenBlob closure of a built layer: a reader over its buffer.
BufferBlob(bytes) == [from |-> "buffer", dgst |-> NoDigest, bytes |-> bytes]

Layer(desc, diffID, openBlob) ==
    [Descriptor |-> desc, DiffID |-> diffID, OpenBlob |-> openBlob]

\* The length check of buildImage.
LayerCountMismatch(manifest, config) ==
    Len(manifest.Layers) # Len(config.DiffIDs.vals)

\* The layers of buildImage, once the counts are known to agree.
LoadedLayers(manifest, config) ==
    [i \in 1..Len(manifest.Layers) |->
        Layer([manifest.Layers[i] EXCEPT
                  !.MediaType = normalizeLayerMediaType(@)],
              config.DiffIDs.vals[i],
              LoaderBlob(manifest.Layers[i].Digest))]

\* loader.buildImage
buildImage(l, md, build) ==
    Bind(getPlatformByManifestDescriptor(l, md, build), LAMBDA p :
    IF p.err # Nil THEN [l |-> p.l, err |-> p.err, v |-> ZeroImage]
    ELSE Bind(getManifest(p.l, md.Digest), LAMBDA m :
    IF m.err # Nil THEN [l |-> m.l, err |-> m.err, v |-> ZeroImage]
    ELSE Bind(getConfig(m.l, m.v.Config.Digest, build), LAMBDA c :
    IF c.err # Nil THEN [l |-> c.l, err |-> c.err, v |-> ZeroImage]
    ELSE IF LayerCountMismatch(m.v, c.v)
    THEN [l |-> c.l, v |-> ZeroImage,
          err |-> RawErr("manifest layer count does not match diff ID count")]
    ELSE IF \E i \in 1..Len(m.v.Layers) :
               isNondistributableMediaType(
                   normalizeLayerMediaType(m.v.Layers[i].MediaType))
    THEN [l |-> c.l, v |-> ZeroImage,
          err |-> RawErr("image contains nondistributable layers")]
    ELSE [l |-> c.l, err |-> Nil,
          v |-> [Layers |-> LoadedLayers(m.v, c.v), Config |-> c.v,
                 Platform |-> p.v, Annotations |-> m.v.Annotations]])))

\* A plausible slip: the manifest is not put in the cache.
synthesizeRootIndexFromManifest_notCached(l, content) ==
    Bind(DecodeManifest(content), LAMBDA d :
        IF d.err # Nil THEN [l |-> l, err |-> d.err]
        ELSE Bind(FromBytes(content), LAMBDA dgst :
             [l |-> [l EXCEPT
                       !.rootIndex =
                           Index("", <<Descriptor(MediaTypeImageManifest, dgst,
                                                  content.len + content.tail,
                                                  NilPlatform)>>)],
              err |-> Nil]))

\* loader.synthesizeRootIndexFromManifest
synthesizeRootIndexFromManifest(l, content) ==
    Bind(DecodeManifest(content), LAMBDA d :
        IF d.err # Nil THEN [l |-> l, err |-> d.err]
        ELSE Bind(FromBytes(content), LAMBDA dgst :
             [l |-> [l EXCEPT
                       !.manifestsByDigest = (dgst :> d.v) @@ @,
                       !.rootIndex =
                           Index("", <<Descriptor(MediaTypeImageManifest, dgst,
                                                  content.len + content.tail,
                                                  NilPlatform)>>)],
              err |-> Nil]))

\* A plausible slip: the media type of a manifest is looked at before the
\* manifests array.
initRootIndex_manifestFirst(l) ==
    Bind(OpenRootManifest(l.src), LAMBDA o :
        IF o.err # Nil THEN [l |-> l, err |-> o.err]
        ELSE IF l.src.rootDigest.ok /\ ~Verified(l.src.rootDigest.dgst, o.bytes)
        THEN [l |-> l, err |-> RawErr("content of manifest does not match digest")]
        ELSE IF ~o.bytes.json THEN [l |-> l, err |-> JSONError]
        ELSE IF o.bytes.mediaType \in SupportedManifestMediaTypes
        THEN synthesizeRootIndexFromManifest(l, o.bytes)
        ELSE IF \/ o.bytes.mediaType \in SupportedIndexMediaTypes
                \/ Len(o.bytes.manifests) > 0
        THEN [l |-> [l EXCEPT !.rootIndex = DecodeIndex(o.bytes).v], err |-> Nil]
        ELSE [l |-> l, err |-> RawErr("unsupported manifest type")])

\* loader.initRootIndex
initRootIndex(l) ==
    Bind(OpenRootManifest(l.src), LAMBDA o :
        IF o.err # Nil THEN [l |-> l, err |-> o.err]
        ELSE IF l.src.rootDigest.ok /\ ~Verified(l.src.rootDigest.dgst, o.bytes)
        THEN [l |-> l, err |-> RawErr("content of manifest does not match digest")]
        ELSE IF ~o.bytes.json THEN [l |-> l, err |-> JSONError]
        ELSE IF \/ o.bytes.mediaType \in SupportedIndexMediaTypes
                \/ Len(o.bytes.manifests) > 0
        THEN [l |-> [l EXCEPT !.rootIndex = DecodeIndex(o.bytes).v], err |-> Nil]
        ELSE IF o.bytes.mediaType \in SupportedManifestMediaTypes
        THEN synthesizeRootIndexFromManifest(l, o.bytes)
        ELSE [l |-> l, err |-> RawErr("unsupported manifest type")])

\* loader.getNestedIndex
getNestedIndex(l, dgst) ==
    IF dgst \in DOMAIN l.nestedIndexes
    THEN [l |-> l, err |-> Nil, v |-> l.nestedIndexes[dgst]]
    ELSE Bind(readJSONManifest(l, dgst), LAMBDA r :
             IF r.err # Nil THEN [l |-> l, err |-> r.err, v |-> ZeroIndex]
             ELSE Bind(DecodeIndex(r.bytes).v, LAMBDA n :
                      [l |-> [l EXCEPT !.nestedIndexes = (dgst :> n) @@ @],
                       err |-> Nil, v |-> n]))

\* A plausible slip: the indexes found inside a nested index are fetched too.
RECURSIVE nestedIndexesOf_deep(_, _, _)
nestedIndexesOf_deep(l, descs, acc) ==
    IF descs = <<>> THEN [l |-> l, err |-> Nil, v |-> acc]
    ELSE IF Head(descs).MediaType \in SupportedIndexMediaTypes
    THEN Bind(getNestedIndex(l, Head(descs).Digest), LAMBDA n :
             IF n.err # Nil THEN [l |-> n.l, err |-> n.err, v |-> <<>>]
             ELSE nestedIndexesOf_deep(n.l, n.v.Manifests \o Tail(descs),
                                       Append(acc, n.v)))
    ELSE nestedIndexesOf_deep(l, Tail(descs), acc)

\* The loop of getAllIndexes over the descriptors of the root index.
RECURSIVE nestedIndexesOf(_, _, _)
nestedIndexesOf(l, descs, acc) ==
    IF descs = <<>> THEN [l |-> l, err |-> Nil, v |-> acc]
    ELSE IF Head(descs).MediaType \in SupportedIndexMediaTypes
    THEN Bind(getNestedIndex(l, Head(descs).Digest), LAMBDA n :
             IF n.err # Nil THEN [l |-> n.l, err |-> n.err, v |-> <<>>]
             ELSE nestedIndexesOf(n.l, Tail(descs), Append(acc, n.v)))
    ELSE nestedIndexesOf(l, Tail(descs), acc)

\* loader.getAllIndexes
getAllIndexes(l) == nestedIndexesOf(l, l.rootIndex.Manifests, <<l.rootIndex>>)

\* A plausible slip: the media type of a descriptor is not looked at.
RECURSIVE manifestDescriptorsOf_unfiltered(_)
manifestDescriptorsOf_unfiltered(indexes) ==
    IF indexes = <<>> THEN <<>>
    ELSE Head(indexes).Manifests \o manifestDescriptorsOf_unfiltered(Tail(indexes))

\* The manifest descriptors of the given indexes, in order.
RECURSIVE manifestDescriptorsOf(_)
manifestDescriptorsOf(indexes) ==
    IF indexes = <<>> THEN <<>>
    ELSE SelectSeq(Head(indexes).Manifests,
                   LAMBDA d : d.MediaType \in SupportedManifestMediaTypes)
         \o manifestDescriptorsOf(Tail(indexes))

\* loader.getAllManifestDescriptors
getAllManifestDescriptors(l) ==
    Bind(getAllIndexes(l), LAMBDA r :
        IF r.err # Nil THEN r
        ELSE [l |-> r.l, err |-> Nil, v |-> manifestDescriptorsOf(r.v)])

IndexEntry(platform, md) == [Platform |-> platform, md |-> md]

\* A plausible slip: the md := md of the loop is missing, and every thunk
\* sees the variable of the loop as the last iteration left it.
RECURSIVE indexEntriesOf_sharedVariable(_, _, _, _)
indexEntriesOf_sharedVariable(l, mds, build, acc) ==
    IF mds = <<>> THEN [l |-> l, err |-> Nil, v |-> acc]
    ELSE Bind(getPlatformByManifestDescriptor(l, Head(mds), build), LAMBDA p :
             IF p.err # Nil THEN [l |-> p.l, err |-> p.err, v |-> <<>>]
             ELSE indexEntriesOf_sharedVariable(p.l, Tail(mds), build,
                      Append(acc, IndexEntry(p.v, mds[Len(mds)]))))

\* The loop of buildFullIndex over the manifest descriptors.
RECURSIVE indexEntriesOf(_, _, _, _)
indexEntriesOf(l, mds, build, acc) ==
    IF mds = <<>> THEN [l |-> l, err |-> Nil, v |-> acc]
    ELSE Bind(getPlatformByManifestDescriptor(l, Head(mds), build), LAMBDA p :
             IF p.err # Nil THEN [l |-> p.l, err |-> p.err, v |-> <<>>]
             ELSE indexEntriesOf(p.l, Tail(mds), build,
                                 Append(acc, IndexEntry(p.v, Head(mds)))))

\* loader.buildFullIndex
buildFullIndex(l, build) ==
    Bind(initRootIndex(l), LAMBDA i :
        IF i.err # Nil THEN [l |-> i.l, err |-> i.err, v |-> <<>>]
        ELSE Bind(getAllManifestDescriptors(i.l), LAMBDA d :
                 IF d.err # Nil THEN [l |-> d.l, err |-> d.err, v |-> <<>>]
                 ELSE indexEntriesOf(d.l, d.v, build, <<>>)))

\* image.Load
Load(src, build) == buildFullIndex(NewLoader(src), build)

NoLoader == NewLoader(ArchiveLoader(EmptyLayout))

\* A plausible slip: the oci-layout file is not asked for.
LoadArchive_layoutUnchecked(entries, build) ==
    Bind(populateFromTar(EmptyLayout, entries), LAMBDA r :
        IF r.err # Nil
        THEN [l |-> NoLoader, v |-> <<>>,
              err |-> RawErr("invalid archive: " \o r.err.Err)]
        ELSE IF r.ll.Index.nil
        THEN [l |-> NoLoader, v |-> <<>>,
              err |-> RawErr("invalid archive: missing index.json")]
        ELSE Bind(Load(ArchiveLoader(r.ll), build), LAMBDA x :
                 IF x.err # Nil THEN [l |-> NoLoader, v |-> <<>>, err |-> x.err]
                 ELSE x))

\* ociarchive.LoadArchive
LoadArchive(entries, build) ==
    Bind(populateFromTar(EmptyLayout, entries), LAMBDA r :
        IF r.err # Nil
        THEN [l |-> NoLoader, v |-> <<>>,
              err |-> RawErr("invalid archive: " \o r.err.Err)]
        ELSE IF r.ll.Layout.nil \/ r.ll.Layout.v = ""
        THEN [l |-> NoLoader, v |-> <<>>,
              err |-> RawErr("invalid archive: missing or invalid oci-layout")]
        ELSE IF r.ll.Index.nil
        THEN [l |-> NoLoader, v |-> <<>>,
              err |-> RawErr("invalid archive: missing index.json")]
        ELSE Bind(Load(ArchiveLoader(r.ll), build), LAMBDA x :
                 IF x.err # Nil THEN [l |-> NoLoader, v |-> <<>>, err |-> x.err]
                 ELSE x))

(***************************************************************************)
(* SpecArchive: a tar archive is put together entry by entry and loaded    *)
(***************************************************************************)
MaxEntries == 4

LayerBytes == RawBytes(1, 1)

OtherBytes == RawBytes(2, 1)

BlobName(alg, bytes) == <<"blobs", alg, Hex(alg, bytes)>>

EmptyIndexBytes == MarshalIndex(Index(MediaTypeImageIndex, <<>>))

LayoutBytes == MarshalLayout(ImageLayoutVersion)

ArchiveEntries ==
    { TarEntry(<<ImageLayoutFile>>, TypeReg, LayoutBytes),
      TarEntry(<<ImageLayoutFile>>, TypeReg, MarshalLayout("")),
      TarEntry(<<"index.json">>, TypeReg, EmptyIndexBytes),
      TarEntry(BlobName("sha256", LayerBytes), TypeReg, LayerBytes),
      TarEntry(BlobName("sha256", LayerBytes), TypeReg, OtherBytes),
      TarEntry(BlobName("sha512", LayerBytes), TypeReg, LayerBytes),
      TarEntry(<<"blobs", "sha512", Hex("sha256", LayerBytes)>>, TypeReg, LayerBytes),
      TarEntry(<<"blobs", "README">>, TypeReg, OtherBytes),
      TarEntry(<<"blobs", "sha256">>, TypeDir, NoBytes),
      TarEntry(<<"README">>, TypeReg, OtherBytes) }

NotLoaded ==
    [done |-> FALSE, err |-> Nil, index |-> <<>>, Blobs |-> EmptyBlobs]

IdleBuilder == NewBuilder(Unlimited, 0)

InitArchive ==
    /\ ar = [entries |-> <<>>, res |-> NotLoaded]
    /\ b = IdleBuilder
    /\ ret = NoCall
    /\ nOps = 0
    /\ im = NoImage
    /\ lb = NoLayerBuilder
    /\ ld = NoLoad

\* The archive grows by one entry.
PutEntry(e) ==
    /\ ~ar.res.done
    /\ Len(ar.entries) < MaxEntries
    /\ ar' = [ar EXCEPT !.entries = Append(@, e)]
    /\ UNCHANGED <<b, ret, nOps, im, lb, ld>>

\* LoadArchive is called on the archive.
LoadEntries ==
    /\ ~ar.res.done
    /\ ar' = Bind(LoadArchive(ar.entries, "go1.17"), LAMBDA r :
                 [ar EXCEPT !.res = [done |-> TRUE, err |-> r.err,
                                     index |-> r.v, Blobs |-> r.l.src.Blobs]])
    /\ UNCHANGED <<b, ret, nOps, im, lb, ld>>

NextArchive ==
    \/ \E e \in ArchiveEntries : PutEntry(e)
    \/ LoadEntries

SpecArchive == InitArchive /\ [][NextArchive]_vars

\* A regular file under blobs/ whose content does not hash to the digest
\* named by the last two components of its path.
MismatchedBlob(e) ==
    /\ UnderBlobs(e.Name)
    /\ e.Typeflag = TypeReg
    /\ e.Name[Len(e.Name)] # Hex(e.Name[Len(e.Name) - 1], e.content)

HasMismatchedBlob ==
    \E i \in 1..Len(ar.entries) : MismatchedBlob(ar.entries[i])

\* C2: after a successful load every blob of the layout hashes to the digest
\* it is stored under; and when some regular file under blobs/ has content
\* that does not hash to the digest its path names, the load fails and returns
\* neither an index nor blobs, whatever else the archive holds and in whatever
\* order.
C2_BlobsVerified ==
    ar.res.done =>
        /\ ar.res.err = Nil =>
               \A d \in DOMAIN ar.res.Blobs :
                   d.enc = Hex(d.alg, ar.res.Blobs[d])
        /\ HasMismatchedBlob =>
               /\ ar.res.err # Nil
               /\ ar.res.index = <<>>
               /\ ar.res.Blobs = EmptyBlobs

\* C2 witness: an archive with its oci-layout, its index.json and a correctly
\* named good blob is refused because another blob does not hash to its name.
C2_Witness ==
    /\ ar.res.done
    /\ ar.res.err # Nil
    /\ HasMismatchedBlob
    /\ \E i, j, k \in 1..Len(ar.entries) :
           /\ ar.entries[i].Name = <<ImageLayoutFile>>
           /\ ar.entries[j].Name = <<"index.json">>
           /\ UnderBlobs(ar.entries[k].Name)
           /\ ar.entries[k].Typeflag = TypeReg
           /\ ~MismatchedBlob(ar.entries[k])

(***************************************************************************)
(* internal/image: Image and its methods                                   *)
(***************************************************************************)
\* append(s, x); fresh names the array that is allocated when s is full.
AppendSlice(s, x, fresh) ==
    IF Len(s.vals) < s.cap
    THEN [s EXCEPT !.vals = Append(@, x)]
    ELSE [arr |-> fresh, vals |-> Append(s.vals, x),
          cap |-> IF s.cap = 0 THEN 1 ELSE 2 * s.cap]

\* What a slice t shows once element i of the array arr has been set to x.
SeenThrough(t, arr, i, x) ==
    IF t.arr = arr /\ Len(t.vals) >= i THEN [t EXCEPT !.vals[i] = x] ELSE t

\* A plausible slip: the new layer is put in front of the others.
AppendLayerOp_inFront(img, layer, fresh) ==
    [img EXCEPT !.Layers = <<layer>> \o @,
                !.Config.DiffIDs = AppendSlice(@, layer.DiffID, fresh)]

\* Image.AppendLayer
AppendLayerOp(img, layer, fresh) ==
    [img EXCEPT !.Layers = Append(@, layer),
                !.Config.DiffIDs = AppendSlice(@, layer.DiffID, fresh)]

\* Image.SetPlatform
SetPlatformOp(img, platform) ==
    [img EXCEPT !.Platform = platform,
                !.Config.OS = platform.OS,
                !.Config.Architecture = platform.Architecture]

\* Layer.OpenBlob
OpenLayer(src, layer) ==
    IF layer.OpenBlob.from = "loader" THEN OpenBlob(src, layer.OpenBlob.dgst)
    ELSE [err |-> Nil, bytes |-> layer.OpenBlob.bytes]

(***************************************************************************)
(* internal/ociarchive: writing an image                                   *)
(***************************************************************************)
BlobPath(dgst) == RawPath(FALSE, <<"blobs", dgst.alg, dgst.enc>>)

\* imageWriter.addBlob
addBlob(bb, desc, blob) ==
    AddOp(bb, BlobPath(desc.Digest),
          [File(desc.Size, blob.len, 0) EXCEPT !.content = blob])

\* imageWriter.addBlobContent: the error of AddContent is dropped.
addBlobContent(bb, dgst, content) == AddContentOp(bb, BlobPath(dgst), content).b

\* A plausible slip: the descriptor is left without the size of the blob.
addJSONBlob_noSize(bb, mediaType, encoded) ==
    Bind(FromBytes(encoded), LAMBDA dgst :
        [b |-> addBlobContent(bb, dgst, encoded),
         desc |-> Descriptor(mediaType, dgst, 0, NilPlatform)])

\* imageWriter.addJSONBlob
addJSONBlob(bb, mediaType, encoded) ==
    Bind(FromBytes(encoded), LAMBDA dgst :
        [b |-> addBlobContent(bb, dgst, encoded),
         desc |-> Descriptor(mediaType, dgst, encoded.len, NilPlatform)])

\* imageWriter.addJSONFile: the error of AddContent is dropped.
addJSONFile(bb, name, encoded) ==
    AddContentOp(bb, RawPath(FALSE, <<name>>), encoded).b

\* The first loop of WriteImage.  open lists the blob streams that have been
\* opened and not closed: the loop has no Close, and Builder.Add closes no
\* file.
RECURSIVE addLayers(_, _, _, _)
addLayers(bb, src, layers, open) ==
    IF layers = <<>> THEN [b |-> bb, err |-> Nil, open |-> open]
    ELSE Bind(OpenLayer(src, Head(layers)), LAMBDA o :
             IF o.err # Nil THEN [b |-> bb, err |-> o.err, open |-> open]
             ELSE Bind(addBlob(bb, Head(layers).Descriptor, o.bytes), LAMBDA a :
                      IF a.err # Nil
                      THEN [b |-> a.b, err |-> a.err,
                            open |-> Append(open, Head(layers).Descriptor.Digest)]
                      ELSE addLayers(a.b, src, Tail(layers),
                               Append(open, Head(layers).Descriptor.Digest))))

\* A plausible slip: the manifest lists the layers in reverse.
ManifestLayers_reversed(img) ==
    [i \in 1..Len(img.Layers) |-> img.Layers[Len(img.Layers) + 1 - i].Descriptor]

\* The second loop of WriteImage.
ManifestLayers(img) ==
    [i \in 1..Len(img.Layers) |-> img.Layers[i].Descriptor]

\* A plausible slip: WriteImage returns nil whatever Close returns.
WriteImageOp_closeIgnored(img, src, left, mtime) ==
    Bind(addLayers(NewBuilder(left, mtime), src, img.Layers, <<>>), LAMBDA a :
    IF a.err # Nil THEN a
    ELSE Bind(addJSONBlob(a.b, MediaTypeImageConfig, MarshalConfig(img.Config)),
              LAMBDA c :
         Bind(addJSONBlob(c.b, MediaTypeImageManifest,
                  MarshalManifest(Manifest("", c.desc, ManifestLayers(img),
                                           img.Annotations))),
              LAMBDA m :
         Bind(CloseOp(
             addJSONFile(
                 addJSONFile(m.b, "index.json",
                     MarshalIndex(Index("",
                         <<[m.desc EXCEPT !.Platform = Ptr(img.Platform)]>>))),
                 ImageLayoutFile, MarshalLayout(ImageLayoutVersion))),
              LAMBDA r : [b |-> r.b, err |-> Nil, open |-> a.open]))))

\* imageWriter.WriteImage on a new Builder
WriteImageOp(img, src, left, mtime) ==
    Bind(addLayers(NewBuilder(left, mtime), src, img.Layers, <<>>), LAMBDA a :
    IF a.err # Nil THEN a
    ELSE Bind(addJSONBlob(a.b, MediaTypeImageConfig, MarshalConfig(img.Config)),
              LAMBDA c :
         Bind(addJSONBlob(c.b, MediaTypeImageManifest,
                  MarshalManifest(Manifest("", c.desc, ManifestLayers(img),
                                           img.Annotations))),
              LAMBDA m :
         Bind(CloseOp(
             addJSONFile(
                 addJSONFile(m.b, "index.json",
                     MarshalIndex(Index("",
                         <<[m.desc EXCEPT !.Platform = Ptr(img.Platform)]>>))),
                 ImageLayoutFile, MarshalLayout(ImageLayoutVersion))),
              LAMBDA r : [b |-> r.b, err |-> r.err, open |-> a.open]))))

\* tar.Reader.Next over what a Builder has written.
RECURSIVE ReadTar(_)
ReadTar(s) ==
    IF s = <<>> THEN <<>>
    ELSE IF Head(s).kind = "hdr"
    THEN <<TarEntry(Head(s).Name, Head(s).Typeflag,
                    IF Len(s) >= 2 /\ s[2].kind = "data" THEN s[2].content
                    ELSE NoBytes)>> \o ReadTar(Tail(s))
    ELSE ReadTar(Tail(s))

(***************************************************************************)
(* SpecImage: images are loaded from a remote store, changed, written to   *)
(* an archive and loaded back                                              *)
(***************************************************************************)
MaxLayers == 2

Slots == {1, 2}

LinuxArmV7 == Platform("linux", "arm", "v7")

DiffID(n) == FromBytes(RawBytes(10 + n, 1))

\* The store: a one-layer image, a manifest with a layer more than its config
\* has diff IDs, and an image whose layer blob is not what its digest says.
StoreLayer == Descriptor(MediaTypeDockerLayerGzip, FromBytes(LayerBytes), 1, NilPlatform)

StoreExtraLayer == Descriptor(MediaTypeImageLayerGzip, FromBytes(OtherBytes), 1, NilPlatform)

DamagedBytes == RawBytes(3, 1)

StoreDamagedLayer ==
    Descriptor(MediaTypeImageLayerGzip, FromBytes(RawBytes(4, 1)), 1, NilPlatform)

StoreConfigBytes ==
    [Blank EXCEPT !.diffIDs = <<DiffID(0)>>, !.os = "linux",
                  !.architecture = "amd64", !.payload = "cmd"]

StoreConfig ==
    Descriptor(MediaTypeImageConfig, FromBytes(StoreConfigBytes), 1, NilPlatform)

StoreManifestBytes(layers) ==
    [Blank EXCEPT !.mediaType = MediaTypeDockerManifest, !.config = StoreConfig,
                  !.layers = layers, !.annotations = ("org.example.k" :> "v")]

StoreManifest(layers, platform) ==
    Descriptor(MediaTypeDockerManifest, FromBytes(StoreManifestBytes(layers)),
               1, platform)

StoreRootBytes ==
    [Blank EXCEPT
        !.mediaType = MediaTypeDockerManifestList,
        !.manifests = << StoreManifest(<<StoreLayer>>, NilPlatform),
                         StoreManifest(<<StoreLayer, StoreExtraLayer>>, NilPlatform),
                         StoreManifest(<<StoreDamagedLayer>>, NilPlatform) >>]

Store ==
    RemoteLoader(StoreRootBytes,
        (FromBytes(StoreManifestBytes(<<StoreLayer>>)) :>
             StoreManifestBytes(<<StoreLayer>>))
        @@ (FromBytes(StoreManifestBytes(<<StoreLayer, StoreExtraLayer>>)) :>
             StoreManifestBytes(<<StoreLayer, StoreExtraLayer>>))
        @@ (FromBytes(StoreManifestBytes(<<StoreDamagedLayer>>)) :>
             StoreManifestBytes(<<StoreDamagedLayer>>))
        @@ (StoreConfig.Digest :> StoreConfigBytes)
        @@ (StoreLayer.Digest :> LayerBytes)
        @@ (StoreExtraLayer.Digest :> OtherBytes)
        @@ (StoreDamagedLayer.Digest :> DamagedBytes),
        [ok |-> TRUE, dgst |-> FromBytes(StoreRootBytes)])

\* Layers as a layer builder hands them over: the blob is in a buffer.
BuiltLayer(n) ==
    Layer(Descriptor(MediaTypeImageLayerGzip, FromBytes(RawBytes(20 + n, 1)), 1,
                     NilPlatform),
          DiffID(n), BufferBlob(RawBytes(20 + n, 1)))

BuiltLayers == {BuiltLayer(1), BuiltLayer(2)}

NoImg == [ok |-> FALSE, v |-> ZeroImage]

NotWritten == [done |-> FALSE, err |-> Nil, stream |-> <<>>, img |-> ZeroImage]

NotReloaded ==
    [done |-> FALSE, err |-> Nil, n |-> 0, img |-> ZeroImage]

InitImage ==
    /\ \E build \in Builds :
           im = [pc |-> "start", build |-> build, l |-> NewLoader(Store),
                 index |-> <<>>, imgs |-> [s \in Slots |-> NoImg],
                 err |-> Nil, out |-> NotWritten, rt |-> NotReloaded]
    /\ b = IdleBuilder
    /\ ret = NoCall
    /\ nOps = 0
    /\ ar = NoArchive
    /\ lb = NoLayerBuilder
    /\ ld = NoLoad

\* image.Load on the store
LoadIndex ==
    /\ im.pc = "start"
    /\ im' = Bind(Load(Store, im.build), LAMBDA r :
                 [im EXCEPT !.pc = "loaded", !.l = r.l, !.index = r.v,
                            !.err = r.err])
    /\ UNCHANGED <<b, ret, nOps, ar, lb, ld>>

\* IndexEntry.GetImage of entry i; the result goes to slot s.
GetImage(s, i) ==
    /\ im.pc = "loaded"
    /\ i \in 1..Len(im.index)
    /\ im' = Bind(buildImage(im.l, im.index[i].md, im.build), LAMBDA r :
                 [im EXCEPT !.l = r.l,
                            !.imgs[s] = [ok |-> r.err = Nil, v |-> r.v]])
    /\ UNCHANGED <<b, ret, nOps, ar, lb, ld>>

\* var img image.Image
NewImage(s) ==
    /\ im.pc = "loaded"
    /\ ~im.imgs[s].ok
    /\ im' = [im EXCEPT !.imgs[s] = [ok |-> TRUE, v |-> ZeroImage]]
    /\ UNCHANGED <<b, ret, nOps, ar, lb, ld>>

\* The diff IDs of config once img.AppendLayer has stored x at index i of arr.
Aliased(config, arr, i, x) ==
    [config EXCEPT !.DiffIDs = SeenThrough(@, arr, i, x)]

\* imgs[s].AppendLayer(layer): every slice over the array that is written
\* shows the new element.
AppendLayer(s, layer) ==
    /\ im.pc = "loaded"
    /\ im.imgs[s].ok
    /\ Len(im.imgs[s].v.Layers) < MaxLayers
    /\ LET old == im.imgs[s].v
           new == AppendLayerOp(old, layer, "image " \o ToString(s))
           arr == new.Config.DiffIDs.arr
           i   == Len(new.Config.DiffIDs.vals)
       IN  im' = [im EXCEPT
                    !.imgs = [t \in Slots |->
                                 IF t = s THEN [ok |-> TRUE, v |-> new]
                                 ELSE [@[t] EXCEPT !.v.Config =
                                          Aliased(@, arr, i, layer.DiffID)]],
                    !.l.configsByDigest =
                        [d \in DOMAIN @ |-> Aliased(@[d], arr, i, layer.DiffID)]]
    /\ UNCHANGED <<b, ret, nOps, ar, lb, ld>>

\* imgs[s].SetPlatform(platform)
SetPlatform(s, platform) ==
    /\ im.pc = "loaded"
    /\ im.imgs[s].ok
    /\ im' = [im EXCEPT !.imgs[s].v = SetPlatformOp(@, platform)]
    /\ UNCHANGED <<b, ret, nOps, ar, lb, ld>>

\* ociarchive.WriteImage(imgs[s], w)
WriteImage(s, left, mtime) ==
    /\ im.pc = "loaded"
    /\ im.imgs[s].ok
    /\ im' = Bind(WriteImageOp(im.imgs[s].v, im.l.src, left, mtime), LAMBDA r :
                 [im EXCEPT !.pc = "written",
                            !.out = [done |-> TRUE, err |-> r.err,
                                     stream |-> r.b.tw.stream,
                                     img |-> im.imgs[s].v]])
    /\ UNCHANGED <<b, ret, nOps, ar, lb, ld>>

\* ociarchive.LoadArchive on the archive that was written, then GetImage on
\* the first entry of the index.
LoadWritten ==
    /\ im.pc = "written"
    /\ im.out.err = Nil
    /\ im' = Bind(LoadArchive(ReadTar(im.out.stream), im.build), LAMBDA r :
             Bind(IF r.err = Nil /\ Len(r.v) >= 1
                  THEN buildImage(r.l, r.v[1].md, im.build)
                  ELSE [l |-> r.l, err |-> r.err, v |-> ZeroImage], LAMBDA g :
                 [im EXCEPT !.pc = "reloaded",
                            !.rt = [done |-> TRUE, err |-> g.err,
                                    n |-> Len(r.v), img |-> g.v]]))
    /\ UNCHANGED <<b, ret, nOps, ar, lb, ld>>

NextImage ==
    \/ LoadIndex
    \/ \E s \in Slots, i \in 1..3 : GetImage(s, i)
    \/ \E s \in Slots : NewImage(s)
    \/ \E s \in Slots, layer \in BuiltLayers : AppendLayer(s, layer)
    \/ \E s \in Slots : SetPlatform(s, LinuxArmV7)
    \/ \E s \in Slots, left \in {Unlimited, 2}, t \in DefaultModTimes :
           WriteImage(s, left, t)
    \/ LoadWritten

SpecImage == InitImage /\ [][NextImage]_vars

\* The diff IDs of the config are those of the layers, one for one.
DiffIDsAgree(img) ==
    /\ Len(img.Config.DiffIDs.vals) = Len(img.Layers)
    /\ \A i \in 1..Len(img.Layers) :
           img.Config.DiffIDs.vals[i] = img.Layers[i].DiffID

\* Every layer blob can be opened and hashes to the digest of its descriptor.
BlobsIntact(img) ==
    \A i \in 1..Len(img.Layers) :
        LET o == OpenLayer(Store, img.Layers[i])
        IN  /\ o.err = Nil
            /\ img.Layers[i].Descriptor.Digest.enc =
                   Hex(img.Layers[i].Descriptor.Digest.alg, o.bytes)

\* A config without the array and the capacity behind its diff IDs.
ConfigValue(config) == [config EXCEPT !.DiffIDs = @.vals]

\* Equal but for the OpenBlob closures.
SameImage(x, y) ==
    /\ Len(x.Layers) = Len(y.Layers)
    /\ \A i \in 1..Len(x.Layers) :
           /\ x.Layers[i].Descriptor = y.Layers[i].Descriptor
           /\ x.Layers[i].DiffID = y.Layers[i].DiffID
    /\ ConfigValue(x.Config) = ConfigValue(y.Config)
    /\ x.Platform = y.Platform
    /\ x.Annotations = y.Annotations

RoundTrips ==
    /\ im.rt.err = Nil
    /\ im.rt.n = 1
    /\ SameImage(im.rt.img, im.out.img)

C3_DiffIDsMatchLayers ==
    /\ [](\A s \in Slots : DiffIDsAgree(im.imgs[s].v))
    /\ [][\A s \in Slots : GetImage(s, 2) => ~im'.imgs[s].ok]_vars

(***************************************************************************)
(* More properties of the Builder (checked under Spec)                     *)
(***************************************************************************)
\* The header Add writes for the directory of Files at the path d.
ExplicitDirHeader(d) == Hdr(d, TypeDir, Mode01777, 1, 0)

DirHeaderCount(s, d) ==
    Cardinality({i \in 1..Len(s) :
                    HeaderAt(s, i) /\ s[i].Typeflag = TypeDir /\ s[i].Name = d})

\* The directory d was added by a successful Add of a directory file.
AddedAsDirectory(d) ==
    \E i \in 1..Len(stream) : stream[i] = ExplicitDirHeader(d)

C11_ChildStep ==
    (/\ b.err = Nil
     /\ b.tw.left = Unlimited
     /\ ret'.op = "AddContent"
     /\ ret'.np # Root
     /\ ret'.np \notin DOMAIN b.entries
     /\ AddedAsDirectory(Dir(ret'.np)))
    => /\ ret'.err = Nil
       /\ DirHeaderCount(b'.tw.stream, Dir(ret'.np)) = 1
       /\ \E i \in 1..Len(b'.tw.stream) :
              b'.tw.stream[i] = ExplicitDirHeader(Dir(ret'.np))

\* C11: once Add(d, dir) has succeeded for a file whose Stat reports a
\* directory, adding a new file at d/child succeeds, no second directory
\* entry is emitted for d, and the entry of d keeps the mode and the
\* modification time of its Stat.
C11_ChildOfAddedDirectory == [][C11_ChildStep]_vars

(***************************************************************************)
(* tarlayer: the layer constructor.                                        *)
(*   tarHash   what has been written to the hash of the tar stream         *)
(*   buf       what the gzip writer has written to the buffer              *)
(*   gzipHash  what the gzip writer has written to the hash of the blob    *)
(*   closed    the gzip writer has written its trailer                     *)
(* The embedded tarbuild.Builder is kept next to this record; its sink is  *)
(* io.MultiWriter(lb.zw, lb.tarHash), and neither branch can fail.         *)
(***************************************************************************)
MaxReaders == 2

\* The compressed form of one piece of the tar stream, and the gzip trailer.
Deflate(item) == [item EXCEPT !.kind = "gz:" \o item.kind]

GzTrailer == [Footer EXCEPT !.kind = "gz:trailer"]

DeflateAll(items) == [i \in 1..Len(items) |-> Deflate(items[i])]

\* hash.Hash.Sum over everything written, as v1.Hash{Algorithm, Hex}.
ItemText(it) ==
    "<" \o it.kind \o "," \o Join(it.Name) \o "," \o it.Typeflag \o ","
        \o ToString(it.Mode) \o "," \o ToString(it.ModTime) \o ","
        \o ToString(it.Size) \o "," \o Text(it.content) \o ">"

Sum(written) ==
    NewDigestFromEncoded("sha256",
        "sha256#" \o Join([i \in 1..Len(written) |-> ItemText(written[i])]))

NewLayerBuilder ==
    [tarHash |-> <<>>, buf |-> <<>>, gzipHash |-> <<>>, closed |-> FALSE]

\* A plausible slip: the tar stream reaches the gzip writer only.
MultiWrite_zwOnly(l, items) ==
    [l EXCEPT !.buf = @ \o DeflateAll(items),
              !.gzipHash = @ \o DeflateAll(items)]

\* io.MultiWriter(lb.zw, lb.tarHash) receiving items, the gzip writer
\* passing them on to io.MultiWriter(&lb.buf, lb.gzipHash).
MultiWrite(l, items) ==
    [l EXCEPT !.buf = @ \o DeflateAll(items),
              !.gzipHash = @ \o DeflateAll(items),
              !.tarHash = @ \o items]

\* What an operation of the embedded Builder has sent to its sink.
Sent(bb, after) == SubSeq(after.tw.stream, Len(bb.tw.stream) + 1, Len(after.tw.stream))

\* gzip.Writer.Close: the trailer is written once.
zwClose(l) ==
    IF l.closed THEN l
    ELSE [l EXCEPT !.buf = Append(@, GzTrailer),
                   !.gzipHash = Append(@, GzTrailer),
                   !.closed = TRUE]

\* tarlayer.Layer
TarLayer(blob, digest, diffID) == [blob |-> blob, digest |-> digest, diffID |-> diffID]

NoTarLayer == TarLayer(<<>>, NoDigest, NoDigest)

\* A plausible slip: a finished constructor finishes again.
Finish_again(bb, l) ==
    Bind(CloseOp([bb EXCEPT !.err = IF @ = ErrBuilderClosed THEN Nil ELSE @]),
         LAMBDA r :
      Bind(MultiWrite(l, Sent(bb, r.b)), LAMBDA l1 :
        IF r.err # Nil
        THEN [b |-> r.b, lb |-> l1, err |-> r.err, layer |-> NoTarLayer]
        ELSE Bind(zwClose(l1), LAMBDA l2 :
               [b |-> r.b, lb |-> l2, err |-> Nil,
                layer |-> TarLayer(l2.buf, Sum(l2.gzipHash), Sum(l2.tarHash))])))

\* (*tarlayer.Builder).Finish
FinishOp(bb, l) ==
    Bind(CloseOp(bb), LAMBDA r :
      Bind(MultiWrite(l, Sent(bb, r.b)), LAMBDA l1 :
        IF r.err # Nil
        THEN [b |-> r.b, lb |-> l1, err |-> r.err, layer |-> NoTarLayer]
        ELSE Bind(zwClose(l1), LAMBDA l2 :
               [b |-> r.b, lb |-> l2, err |-> Nil,
                layer |-> TarLayer(l2.buf, Sum(l2.gzipHash), Sum(l2.tarHash))])))

\* Layer.Size
LayerSize(layer) == Len(layer.blob)

\* A plausible slip: every reader of a layer shares one position.
Compressed_shared(cursors) == [cursors |-> Append(cursors, 0), cur |-> 1]

\* Layer.Compressed: io.NopCloser(bytes.NewReader(l.blob)), a reader with a
\* position of its own.
Compressed(cursors) == [cursors |-> Append(cursors, 0), cur |-> Len(cursors) + 1]

\* (*bytes.Reader).Read of at most n pieces: what is returned, and the new
\* position.
ReaderRead(blob, pos, n) ==
    [p |-> SubSeq(blob, pos + 1, Min(pos + n, Len(blob))),
     pos |-> Min(pos + n, Len(blob))]

(***************************************************************************)
(* SpecLayer: one layer constructor, then readers of the layer's blob      *)
(***************************************************************************)
LayerPaths == { RawPath(TRUE, <<"etc", "x">>), RawPath(FALSE, <<"etc">>) }

LayerFiles == { File(1, 1, 1), File(2, 1, 1) }

ReadSizes == {1, 2}

NoReader == [cur |-> 0, got |-> <<>>, eof |-> FALSE, closed |-> FALSE]

InitLayer ==
    /\ b = IdleBuilder
    /\ ret = NoCall
    /\ nOps = 0
    /\ ar = NoArchive
    /\ im = NoImage
    /\ lb = [w |-> NewLayerBuilder, finished |-> 0, layer |-> NoTarLayer,
             cursors |-> <<>>, readers |-> <<>>]
    /\ ld = NoLoad

\* The promoted Add of the embedded Builder.
LayerAdd(path, file) ==
    /\ nOps < MaxOps
    /\ Bind(AddOp(b, path, file), LAMBDA r :
         /\ b' = r.b
         /\ ret' = Call("Add", path, r.err)
         /\ lb' = [lb EXCEPT !.w = MultiWrite(@, Sent(b, r.b))])
    /\ nOps' = nOps + 1
    /\ UNCHANGED <<ar, im, ld>>

\* The promoted AddContent of the embedded Builder.
LayerAddContent(path) ==
    /\ nOps < MaxOps
    /\ Bind(AddContentOp(b, path, RawBytes(2, 1)), LAMBDA r :
         /\ b' = r.b
         /\ ret' = Call("AddContent", path, r.err)
         /\ lb' = [lb EXCEPT !.w = MultiWrite(@, Sent(b, r.b))])
    /\ nOps' = nOps + 1
    /\ UNCHANGED <<ar, im, ld>>

\* The promoted Close of the embedded Builder.
LayerClose ==
    /\ nOps < MaxOps
    /\ Bind(CloseOp(b), LAMBDA r :
         /\ b' = r.b
         /\ ret' = [NoCall EXCEPT !.op = "Close", !.err = r.err]
         /\ lb' = [lb EXCEPT !.w = MultiWrite(@, Sent(b, r.b))])
    /\ nOps' = nOps + 1
    /\ UNCHANGED <<ar, im, ld>>

Finish ==
    /\ nOps < MaxOps
    /\ Bind(FinishOp(b, lb.w), LAMBDA r :
         /\ b' = r.b
         /\ ret' = [NoCall EXCEPT !.op = "Finish", !.err = r.err]
         /\ lb' = [lb EXCEPT !.w = r.lb,
                             !.finished = IF r.err = Nil THEN @ + 1 ELSE @,
                             !.layer = IF r.err = Nil THEN r.layer ELSE @])
    /\ nOps' = nOps + 1
    /\ UNCHANGED <<ar, im, ld>>

\* layer.Compressed()
OpenReader ==
    /\ lb.finished > 0
    /\ Len(lb.readers) < MaxReaders
    /\ Bind(Compressed(lb.cursors), LAMBDA r :
         lb' = [lb EXCEPT !.cursors = r.cursors,
                          !.readers = Append(@, [NoReader EXCEPT !.cur = r.cur])])
    /\ UNCHANGED <<b, ret, nOps, ar, im, ld>>

\* One Read on reader i.
Read(i, n) ==
    /\ i \in 1..Len(lb.readers)
    /\ ~lb.readers[i].closed
    /\ ~lb.readers[i].eof
    /\ Bind(ReaderRead(lb.layer.blob, lb.cursors[lb.readers[i].cur], n), LAMBDA r :
         lb' = [lb EXCEPT !.cursors[lb.readers[i].cur] = r.pos,
                          !.readers[i].got = @ \o r.p,
                          !.readers[i].eof = (r.p = <<>>)])
    /\ UNCHANGED <<b, ret, nOps, ar, im, ld>>

\* Close on reader i: io.NopCloser does nothing.
CloseReader(i) ==
    /\ i \in 1..Len(lb.readers)
    /\ ~lb.readers[i].closed
    /\ lb' = [lb EXCEPT !.readers[i].closed = TRUE]
    /\ UNCHANGED <<b, ret, nOps, ar, im, ld>>

NextLayer ==
    \/ \E p \in LayerPaths, f \in LayerFiles : LayerAdd(p, f)
    \/ \E p \in LayerPaths : LayerAddContent(p)
    \/ LayerClose
    \/ Finish
    \/ OpenReader
    \/ \E i \in 1..MaxReaders, n \in ReadSizes : Read(i, n)
    \/ \E i \in 1..MaxReaders : CloseReader(i)

SpecLayer == InitLayer /\ [][NextLayer]_vars

\* The constructor has finished successfully and is asked to finish again,
\* by Finish or by the promoted Close.
FinishedAgainStep ==
    /\ b.err = ErrBuilderClosed
    /\ ret'.op \in {"Finish", "Close"}
    /\ nOps' = nOps + 1

C12_SameOutcomeStep == FinishedAgainStep => ret'.err = Nil

\* C12 as stated: a Close or Finish after a successful one writes nothing
\* more and reports the outcome of the first call, which was success.
C12_SameOutcome == [][C12_SameOutcomeStep]_vars

C12_ClosedStep ==
    FinishedAgainStep =>
        /\ b'.tw = b.tw
        /\ lb'.w = lb.w
        /\ lb'.layer = lb.layer /\ lb'.finished = lb.finished
        /\ ret'.err = ErrBuilderClosed

\* C12 (amended): a Close or Finish after a successful one writes nothing
\* more to the sink, the buffer or the hashes, returns no further layer, and
\* reports the builder-closed error where the first call reported success.
C12_ClosedAfterFinish == [][C12_ClosedStep]_vars

\* C12 witness: Finish succeeded and a second Finish was answered with the
\* builder-closed error.
C12_Witness ==
    /\ lb.finished = 1
    /\ ret.op = "Finish"
    /\ ret.err = ErrBuilderClosed

\* gzip.NewReader over a complete gzip stream: the pieces that were
\* compressed; a stream without its trailer does not decompress.
Inflate(blob) ==
    IF blob = <<>> \/ Last(blob) # GzTrailer
    THEN [ok |-> FALSE, stream |-> <<>>]
    ELSE [ok |-> TRUE,
          stream |-> [i \in 1..(Len(blob) - 1) |->
                        [blob[i] EXCEPT !.kind = SubSeq(@, 4, Len(@))]]]

\* Whatever has reached one branch of a tee has reached the other.
TeesAgree ==
    /\ lb.w.tarHash = stream
    /\ lb.w.buf = lb.w.gzipHash
    /\ lb.w.buf = DeflateAll(lb.w.tarHash)
                    \o (IF lb.w.closed THEN <<GzTrailer>> ELSE <<>>)

\* C13: the layer returned by Finish has the hash of its buffer as digest,
\* the length of that buffer as size and the hash of the complete tar
\* stream, footer included, as diff id; the buffer is the complete gzip
\* stream of that tar stream, and both branches of each tee have received
\* the same bytes.
C13_LayerDigests ==
    /\ TeesAgree
    /\ lb.finished > 0 =>
         /\ lb.layer.blob = lb.w.buf
         /\ lb.layer.digest = Sum(lb.layer.blob)
         /\ LayerSize(lb.layer) = Len(lb.w.buf)
         /\ lb.layer.diffID = Sum(stream)
         /\ FooterCount(stream) = 1 /\ Last(stream) = Footer
         /\ Inflate(lb.layer.blob) = [ok |-> TRUE, stream |-> stream]

\* C13 witness: Finish has returned a layer holding a file and its parent
\* directory.
C13_Witness ==
    /\ lb.finished = 1
    /\ ret.op = "Finish" /\ ret.err = Nil
    /\ Len(lb.layer.blob) >= 5

\* What reader i has yielded so far is the start of the layer's blob, as far
\* as its own position; at end of file it is the whole blob.
YieldsBlob(i) ==
    /\ lb.readers[i].got = SubSeq(lb.layer.blob, 1, lb.cursors[lb.readers[i].cur])
    /\ lb.readers[i].eof => lb.readers[i].got = lb.layer.blob

\* A step on one reader leaves every other reader where it was.
OthersUntouched ==
    \A i, j \in 1..Len(lb.readers) :
        (i # j /\ lb'.readers[i] # lb.readers[i]) =>
            /\ lb'.readers[j] = lb.readers[j]
            /\ lb'.cursors[lb.readers[j].cur] = lb.cursors[lb.readers[j].cur]

\* C14: every reader obtained from a layer starts at the beginning of the
\* blob and yields the complete blob, whatever the other readers of the
\* layer do in between; reading or closing one changes nothing for another.
C14_FreshReaders ==
    /\ [](\A i \in 1..Len(lb.readers) : YieldsBlob(i))
    /\ [][OthersUntouched]_vars

\* C14 witness: two readers of one layer have both reached the end of the
\* blob, the second one opened after the first had started to read and been
\* closed before the first had finished.
C14_Witness ==
    /\ Len(lb.readers) = 2
    /\ Len(lb.layer.blob) >= 3
    /\ lb.readers[1].eof /\ lb.readers[2].eof
    /\ lb.readers[1].got = lb.layer.blob /\ lb.readers[2].got = lb.layer.blob
    /\ lb.readers[2].closed /\ ~lb.readers[1].closed

(***************************************************************************)
(* More properties of LoadArchive (checked under SpecArchive)              *)
(***************************************************************************)
EntriesNamed(name) == {i \in 1..Len(ar.entries) : ar.entries[i].Name = name}

\* The archive has an oci-layout entry, and none that gives a version.
LayoutWithoutVersion ==
    /\ EntriesNamed(<<ImageLayoutFile>>) # {}
    /\ \A i \in EntriesNamed(<<ImageLayoutFile>>) :
           DecodeLayout(ar.entries[i].content).v = ""

\* The error starts with "invalid archive: ".
IsInvalidArchive(err) ==
    /\ err.type = "raw"
    /\ Len(err.Err) >= 17
    /\ SubSeq(err.Err, 1, 17) = "invalid archive: "

\* C15: an archive without oci-layout entry, without index.json entry, or
\* whose oci-layout gives no version, is refused with an invalid-archive
\* error and no index, whatever the order of its entries and whatever blobs
\* it holds.
C15_InvalidArchive ==
    (/\ ar.res.done
     /\ \/ EntriesNamed(<<ImageLayoutFile>>) = {}
        \/ EntriesNamed(<<"index.json">>) = {}
        \/ LayoutWithoutVersion)
    => /\ IsInvalidArchive(ar.res.err)
       /\ ar.res.index = <<>>
       /\ ar.res.Blobs = EmptyBlobs

\* C15 witness: an archive with an index.json, a good blob and an oci-layout
\* without version has been refused for its oci-layout.
C15_Witness ==
    /\ ar.res.done
    /\ LayoutWithoutVersion
    /\ EntriesNamed(<<"index.json">>) # {}
    /\ \E i \in 1..Len(ar.entries) :
           UnderBlobs(ar.entries[i].Name) /\ ~MismatchedBlob(ar.entries[i])
                                         /\ ar.entries[i].Typeflag = TypeReg
    /\ ar.res.err = RawErr("invalid archive: missing or invalid oci-layout")

\* What LoadArchive answers for a sequence of entries, as ar.res records it.
Loaded(entries) ==
    Bind(LoadArchive(entries, "go1.17"), LAMBDA r :
        [done |-> TRUE, err |-> r.err, index |-> r.v, Blobs |-> r.l.src.Blobs])

\* An entry at blobs/<alg>/<hex>: a regular file two levels below blobs.
StoredBlob(e) ==
    /\ Len(e.Name) = 3 /\ e.Name[1] = "blobs"
    /\ e.Typeflag = TypeReg

\* An extra entry as the claim has it.
ExtraEntry(e) ==
    /\ e.Name \notin {<<ImageLayoutFile>>, <<"index.json">>}
    /\ ~StoredBlob(e)

\* An extra entry that the reader passes over: it is not one of the two
\* documents and not a regular file under blobs/.
PassedOver(e) ==
    /\ e.Name \notin {<<ImageLayoutFile>>, <<"index.json">>}
    /\ ~(UnderBlobs(e.Name) /\ e.Typeflag = TypeReg)

\* A regular file under blobs/ whose path names no well-formed digest.
StrayBlobFile(e) ==
    /\ UnderBlobs(e.Name) /\ e.Typeflag = TypeReg
    /\ ~Validate(NewDigestFromEncoded(BaseOfDir(e.Name), Base(e.Name)))

NotExtraEntry(e) == ~ExtraEntry(e)

NotPassedOver(e) == ~PassedOver(e)

\* C16 as stated: an archive that is valid without its extra entries loads
\* with them as it does without them.
C16_ExtrasIgnored ==
    (ar.res.done /\ Loaded(SelectSeq(ar.entries, NotExtraEntry)).err = Nil)
    => ar.res = Loaded(SelectSeq(ar.entries, NotExtraEntry))

\* C16 (amended): entries that are neither oci-layout nor index.json nor a
\* regular file under blobs/ make no difference to what the load returns
\* and never appear in the blob map; a regular file under blobs/ whose path
\* names no well-formed digest makes the load fail.
C16_PassedOverIgnored ==
    ar.res.done =>
        /\ ar.res = Loaded(SelectSeq(ar.entries, NotPassedOver))
        /\ \A i \in 1..Len(ar.entries) :
               /\ PassedOver(ar.entries[i]) =>
                      \A d \in DOMAIN ar.res.Blobs :
                          <<"blobs", d.alg, d.enc>> # ar.entries[i].Name
               /\ StrayBlobFile(ar.entries[i]) =>
                      ar.res.err # Nil /\ ar.res.index = <<>>

\* C16 witness: a valid archive with a blob, a README at its root and a
\* directory under blobs/ has been loaded.
C16_Witness ==
    /\ ar.res.done
    /\ ar.res.err = Nil
    /\ ar.res.Blobs # EmptyBlobs
    /\ \E i \in 1..Len(ar.entries) : PassedOver(ar.entries[i])

(***************************************************************************)
(* SpecRead: one document of a store is read by a new loader, as the root  *)
(* document, as a manifest, as a nested index or as a config.  The store   *)
(* answers for the digest ld.dgst with the byte string ld.bytes, in reads  *)
(* of ld.src.chunk.                                                        *)
(***************************************************************************)
MaxTail == 1

MaxDocLen == 2

RootMediaTypes ==
    {"", "text/plain", MediaTypeImageConfig} \cup SupportedIndexMediaTypes
        \cup SupportedManifestMediaTypes

SomeManifestDesc ==
    Descriptor(MediaTypeImageManifest, FromBytes(RawBytes(1, 1)), 1,
               Ptr(Platform("linux", "arm", "v7")))

SomeIndexDesc ==
    Descriptor(MediaTypeImageIndex, FromBytes(RawBytes(2, 1)), 1, NilPlatform)

ManifestArrays == {<<>>, <<SomeManifestDesc>>, <<SomeIndexDesc, SomeManifestDesc>>}

Docs ==
    { [Blank EXCEPT !.mediaType = m, !.manifests = a, !.len = n, !.tail = t] :
        m \in RootMediaTypes, a \in ManifestArrays, n \in 1..MaxDocLen,
        t \in 0..MaxTail }
    \cup { RawBytes(3, n) : n \in 1..MaxDocLen }

\* The digests a document may be asked for by: that of the whole byte
\* string, that of the document without what follows it, and another one.
DigestsFor(bytes) ==
    { FromBytes(bytes), FromBytes([bytes EXCEPT !.tail = 0]),
      FromBytes(RawBytes(9, 1)) }

NotRead == [op |-> "none", err |-> Nil, l |-> NoLoader, load |-> Nil]

InitRead ==
    /\ \E bytes \in Docs, chunk \in 1..MinRead, known \in BOOLEAN :
         \E d \in DigestsFor(bytes) :
           ld = [bytes |-> bytes, dgst |-> d,
                 src |-> [RemoteLoader(bytes, (d :> bytes), [ok |-> known, dgst |-> d])
                             EXCEPT !.chunk = chunk],
                 res |-> NotRead]
    /\ b = IdleBuilder
    /\ ret = NoCall
    /\ nOps = 0
    /\ ar = NoArchive
    /\ im = NoImage
    /\ lb = NoLayerBuilder

\* image.Load reads the root document.
ReadRoot ==
    /\ ld.res.op = "none"
    /\ ld' = Bind(initRootIndex(NewLoader(ld.src)), LAMBDA r :
               [ld EXCEPT !.res = [op |-> "root", err |-> r.err, l |-> r.l,
                                   load |-> Load(ld.src, "go1.17").err]])
    /\ UNCHANGED <<b, ret, nOps, ar, im, lb>>

ReadManifest ==
    /\ ld.res.op = "none"
    /\ ld' = Bind(getManifest(NewLoader(ld.src), ld.dgst), LAMBDA r :
               [ld EXCEPT !.res = [op |-> "manifest", err |-> r.err, l |-> r.l,
                                   load |-> Nil]])
    /\ UNCHANGED <<b, ret, nOps, ar, im, lb>>

ReadNestedIndex ==
    /\ ld.res.op = "none"
    /\ ld' = Bind(getNestedIndex(NewLoader(ld.src), ld.dgst), LAMBDA r :
               [ld EXCEPT !.res = [op |-> "index", err |-> r.err, l |-> r.l,
                                   load |-> Nil]])
    /\ UNCHANGED <<b, ret, nOps, ar, im, lb>>

ReadConfig ==
    /\ ld.res.op = "none"
    /\ ld' = Bind(getConfig(NewLoader(ld.src), ld.dgst, "go1.17"), LAMBDA r :
               [ld EXCEPT !.res = [op |-> "config", err |-> r.err, l |-> r.l,
                                   load |-> Nil]])
    /\ UNCHANGED <<b, ret, nOps, ar, im, lb>>

NextRead == ReadRoot \/ ReadManifest \/ ReadNestedIndex \/ ReadConfig

SpecRead == InitRead /\ [][NextRead]_vars

\* The root document has been read, it is a JSON document, and it has the
\* digest the store announces for it, if the store announces one.
RootDecoded ==
    /\ ld.res.op = "root"
    /\ ld.bytes.json
    /\ ld.src.rootDigest.ok => ld.dgst = FromBytes(ld.bytes)

IsIndexDocument ==
    \/ ld.bytes.mediaType \in SupportedIndexMediaTypes
    \/ ld.bytes.manifests # <<>>

IsManifestDocument ==
    /\ ~IsIndexDocument
    /\ ld.bytes.mediaType \in SupportedManifestMediaTypes

\* C17: the root document is taken for an index when its media type is one
\* of an index or its manifests array is not empty, otherwise for a single
\* manifest when its media type is one of a manifest, and is otherwise
\* refused as an unsupported manifest type, without an index.
C17_RootClassified ==
    RootDecoded =>
        IF IsIndexDocument
        THEN /\ ld.res.err = Nil
             /\ ld.res.l.rootIndex = Index(ld.bytes.mediaType, ld.bytes.manifests)
             /\ ld.res.l.manifestsByDigest = EmptyCache
        ELSE IF IsManifestDocument
        THEN /\ ld.res.err = Nil
             /\ Len(ld.res.l.rootIndex.Manifests) = 1
             /\ ld.res.l.rootIndex.Manifests[1].Digest = FromBytes(ld.bytes)
             /\ ld.res.l.rootIndex.Manifests[1].MediaType = MediaTypeImageManifest
             /\ DOMAIN ld.res.l.manifestsByDigest = {FromBytes(ld.bytes)}
        ELSE /\ ld.res.err = RawErr("unsupported manifest type")
             /\ ld.res.load = RawErr("unsupported manifest type")
             /\ ld.res.l.rootIndex = ZeroIndex

\* C17 witness: a root document without media type and with an empty
\* manifests array has been refused.
C17_Witness ==
    /\ RootDecoded
    /\ ld.bytes.mediaType = "" /\ ld.bytes.manifests = <<>>
    /\ ld.res.err = RawErr("unsupported manifest type")

\* The document has been read by its digest.
ReadByDigest ==
    \/ ld.res.op \in {"manifest", "index", "config"}
    \/ ld.res.op = "root" /\ ld.src.rootDigest.ok

IsDigestMismatch(err) ==
    err \in {RawErr("content of manifest does not match digest"),
             RawErr("content of blob does not match digest")}

\* C18: a document read by its digest d is accepted if and only if the whole
\* byte string the store returns for it hashes to d: when it does not, the
\* read fails, with a digest-mismatch error if the document decodes; when it
\* does and the document decodes, the read is not refused.
C18_AcceptedIffHashes ==
    ReadByDigest =>
        /\ ~Verified(ld.dgst, ld.bytes) =>
               /\ ld.res.err # Nil
               /\ ld.bytes.json => IsDigestMismatch(ld.res.err)
        /\ (Verified(ld.dgst, ld.bytes) /\ ld.bytes.json) =>
               /\ ~IsDigestMismatch(ld.res.err)
               /\ ld.res.op # "root" => ld.res.err = Nil

(***************************************************************************)
(* SpecThunks: the GetImage thunks of one index run concurrently.  Some    *)
(* descriptors of the index carry a platform, so that Load caches nothing  *)
(* for them and the thunks are the first to ask for their manifests and    *)
(* configs; the others have their platform read from their config.         *)
(* A thunk is in phase "platform" inside getPlatformByManifestDescriptor   *)
(* and in phase "image" after it, and at                                   *)
(*   m.load   before manifestsByDigest.Load                                *)
(*   m.read   before readJSONManifest                                      *)
(*   m.store  before manifestsByDigest.LoadOrStore                         *)
(*   c.load, c.read, c.store   likewise for the config                     *)
(*   done     after buildImage has returned                                *)
(***************************************************************************)
MaxThunks == 2

MissingManifest ==
    Descriptor(MediaTypeImageManifest, FromBytes(RawBytes(30, 1)), 1, Ptr(LinuxArmV7))

\* A config with every field a platform is read from.
WindowsConfigBytes ==
    [Blank EXCEPT !.diffIDs = <<DiffID(0)>>, !.os = "windows",
                  !.architecture = "arm64", !.variant = "v8",
                  !.osVersion = "10.0.1", !.osFeatures = <<"win32k">>]

WindowsManifestBytes(layers) ==
    [Blank EXCEPT !.mediaType = MediaTypeImageManifest,
                  !.config = Descriptor(MediaTypeImageConfig,
                                        FromBytes(WindowsConfigBytes), 1, NilPlatform),
                  !.layers = layers]

WindowsManifest(layers) ==
    Descriptor(MediaTypeImageManifest, FromBytes(WindowsManifestBytes(layers)), 1,
               NilPlatform)

NestedIndexBytes ==
    [Blank EXCEPT !.mediaType = MediaTypeImageIndex,
                  !.manifests = <<WindowsManifest(<<StoreLayer>>)>>]

ThunkRootBytes ==
    [Blank EXCEPT
        !.mediaType = MediaTypeImageIndex,
        !.manifests = << StoreManifest(<<StoreLayer>>, Ptr(LinuxArmV7)),
                         Descriptor(MediaTypeImageIndex, FromBytes(NestedIndexBytes),
                                    1, NilPlatform),
                         StoreManifest(<<StoreDamagedLayer>>, Ptr(LinuxArmV7)),
                         WindowsManifest(<<StoreLayer, StoreExtraLayer>>),
                         MissingManifest >>]

ThunkStore ==
    [Store EXCEPT
        !.root = ThunkRootBytes,
        !.rootDigest = [ok |-> TRUE, dgst |-> FromBytes(ThunkRootBytes)],
        !.Blobs = (FromBytes(NestedIndexBytes) :> NestedIndexBytes)
                  @@ (FromBytes(WindowsConfigBytes) :> WindowsConfigBytes)
                  @@ (FromBytes(WindowsManifestBytes(<<StoreLayer>>)) :>
                          WindowsManifestBytes(<<StoreLayer>>))
                  @@ (FromBytes(WindowsManifestBytes(<<StoreLayer, StoreExtraLayer>>)) :>
                          WindowsManifestBytes(<<StoreLayer, StoreExtraLayer>>))
                  @@ @]

\* The platform getPlatformByManifestDescriptor puts together from a config.
configPlatform(c) ==
    [OS |-> c.OS, Architecture |-> c.Architecture, Variant |-> c.Variant,
     OSVersion |-> c.OSVersion, OSFeatures |-> c.OSFeatures]

\* The thunk of index entry e, about to call buildImage for its descriptor.
NewThunk(e, md) ==
    [e |-> e, md |-> md,
     phase |-> IF md.Platform.nil THEN "platform" ELSE "image",
     platform |-> md.Platform.v,
     pc |-> "m.load", manifest |-> ZeroManifest, config |-> ZeroConfig,
     own |-> ZeroConfig, err |-> Nil, img |-> ZeroImage]

\* The end of buildImage, once manifest and config are there.
assembleImage(platform, manifest, config) ==
    IF LayerCountMismatch(manifest, config)
    THEN [err |-> RawErr("manifest layer count does not match diff ID count"),
          v |-> ZeroImage]
    ELSE IF \E i \in 1..Len(manifest.Layers) :
               isNondistributableMediaType(
                   normalizeLayerMediaType(manifest.Layers[i].MediaType))
    THEN [err |-> RawErr("image contains nondistributable layers"), v |-> ZeroImage]
    ELSE [err |-> Nil,
          v |-> [Layers |-> LoadedLayers(manifest, config), Config |-> config,
                 Platform |-> platform, Annotations |-> manifest.Annotations]]

\* getConfig has returned config to the thunk: inside
\* getPlatformByManifestDescriptor the platform is taken from it and
\* buildImage goes on to fetch manifest and config again; after that
\* buildImage returns.
Returned(t, config) ==
    IF t.phase = "platform"
    THEN [t EXCEPT !.phase = "image", !.pc = "m.load",
                   !.platform = configPlatform(config)]
    ELSE Bind(assembleImage(t.platform, t.manifest, config), LAMBDA r :
             [t EXCEPT !.pc = "done", !.config = config, !.err = r.err,
                       !.img = r.v])

InitThunks ==
    /\ Bind(Load(ThunkStore, "go1.17"), LAMBDA r :
         \E es \in [1..MaxThunks -> 1..Len(r.v)] :
            ld = [l |-> r.l, index |-> r.v, err |-> r.err,
                  th |-> [i \in 1..MaxThunks |-> NewThunk(es[i], r.v[es[i]].md)]])
    /\ b = IdleBuilder
    /\ ret = NoCall
    /\ nOps = 0
    /\ ar = NoArchive
    /\ im = NoImage
    /\ lb = NoLayerBuilder

\* getManifest: l.manifestsByDigest.Load(dgst)
GetManifestLoad(i) ==
    /\ ld.th[i].pc = "m.load"
    /\ ld' = IF ld.th[i].md.Digest \in DOMAIN ld.l.manifestsByDigest
             THEN [ld EXCEPT !.th[i].pc = "c.load",
                             !.th[i].manifest =
                                 ld.l.manifestsByDigest[ld.th[i].md.Digest]]
             ELSE [ld EXCEPT !.th[i].pc = "m.read"]
    /\ UNCHANGED <<b, ret, nOps, ar, im, lb>>

\* getManifest: l.readJSONManifest(ctx, dgst, &manifest)
GetManifestRead(i) ==
    /\ ld.th[i].pc = "m.read"
    /\ ld' = Bind(readJSONManifest(ld.l, ld.th[i].md.Digest), LAMBDA r :
               IF r.err # Nil
               THEN [ld EXCEPT !.th[i].pc = "done", !.th[i].err = r.err]
               ELSE [ld EXCEPT !.th[i].pc = "m.store",
                               !.th[i].manifest = DecodeManifest(r.bytes).v])
    /\ UNCHANGED <<b, ret, nOps, ar, im, lb>>

\* A plausible slip: the thunk enters what it has read in the table of
\* nested indexes as well.
GetManifestStore_alsoNested(i) ==
    /\ ld.th[i].pc = "m.store"
    /\ ld' = Bind(LoadOrStore(ld.l.manifestsByDigest, ld.th[i].md.Digest,
                              ld.th[i].manifest), LAMBDA m :
               [ld EXCEPT !.l.manifestsByDigest = m,
                          !.l.nestedIndexes = (ld.th[i].md.Digest :> ZeroIndex) @@ @,
                          !.th[i].pc = "c.load",
                          !.th[i].manifest = m[ld.th[i].md.Digest]])
    /\ UNCHANGED <<b, ret, nOps, ar, im, lb>>

\* getManifest: l.manifestsByDigest.LoadOrStore(dgst, manifest)
GetManifestStore(i) ==
    /\ ld.th[i].pc = "m.store"
    /\ ld' = Bind(LoadOrStore(ld.l.manifestsByDigest, ld.th[i].md.Digest,
                              ld.th[i].manifest), LAMBDA m :
               [ld EXCEPT !.l.manifestsByDigest = m,
                          !.th[i].pc = "c.load",
                          !.th[i].manifest = m[ld.th[i].md.Digest]])
    /\ UNCHANGED <<b, ret, nOps, ar, im, lb>>

\* getConfig: l.configsByDigest.Load(dgst)
GetConfigLoad(i) ==
    /\ ld.th[i].pc = "c.load"
    /\ ld' = IF ld.th[i].manifest.Config.Digest \in DOMAIN ld.l.configsByDigest
             THEN [ld EXCEPT !.th[i] =
                       Returned(@, ld.l.configsByDigest[@.manifest.Config.Digest])]
             ELSE [ld EXCEPT !.th[i].pc = "c.read"]
    /\ UNCHANGED <<b, ret, nOps, ar, im, lb>>

\* getConfig: l.readJSONBlob(ctx, dgst, &config); the decoder allocates the
\* array of diff IDs anew for every caller.
GetConfigRead(i) ==
    /\ ld.th[i].pc = "c.read"
    /\ ld' = Bind(readJSONBlob(ld.l, ld.th[i].manifest.Config.Digest), LAMBDA r :
               IF r.err # Nil
               THEN [ld EXCEPT !.th[i].pc = "done", !.th[i].err = r.err]
               ELSE [ld EXCEPT !.th[i].pc = "c.store",
                               !.th[i].own =
                                   DecodeConfig(r.bytes,
                                       "config read by thunk " \o ToString(i),
                                       "go1.17").v])
    /\ UNCHANGED <<b, ret, nOps, ar, im, lb>>

\* getConfig: l.configsByDigest.LoadOrStore(dgst, config)
GetConfigStore(i) ==
    /\ ld.th[i].pc = "c.store"
    /\ ld' = Bind(LoadOrStore(ld.l.configsByDigest,
                              ld.th[i].manifest.Config.Digest, ld.th[i].own),
                  LAMBDA c :
               [ld EXCEPT !.l.configsByDigest = c,
                          !.th[i] = Returned(@, c[@.manifest.Config.Digest])])
    /\ UNCHANGED <<b, ret, nOps, ar, im, lb>>

NextThunks ==
    \E i \in 1..MaxThunks :
        \/ GetManifestLoad(i)
        \/ GetManifestRead(i)
        \/ GetManifestStore(i)
        \/ GetConfigLoad(i)
        \/ GetConfigRead(i)
        \/ GetConfigStore(i)

SpecThunks == InitThunks /\ [][NextThunks]_vars

\* Thunk i holds the manifest, and the config, that getManifest and getConfig
\* have returned to it.
HasManifest(i) ==
    ld.th[i].pc \in {"c.load", "c.read", "c.store"}
        \/ (ld.th[i].pc = "done" /\ ld.th[i].manifest # ZeroManifest)

HasConfig(i) == ld.th[i].pc = "done" /\ ld.th[i].config # ZeroConfig

\* What a caller has been given is what the cache holds.
ReturnsCached ==
    \A i \in 1..MaxThunks :
        /\ HasManifest(i) =>
               /\ ld.th[i].md.Digest \in DOMAIN ld.l.manifestsByDigest
               /\ ld.th[i].manifest = ld.l.manifestsByDigest[ld.th[i].md.Digest]
        /\ HasConfig(i) =>
               /\ ld.th[i].manifest.Config.Digest \in DOMAIN ld.l.configsByDigest
               /\ ld.th[i].config =
                      ld.l.configsByDigest[ld.th[i].manifest.Config.Digest]

\* An entry of a cache stays as it is.
CacheKept ==
    /\ \A d \in DOMAIN ld.l.manifestsByDigest :
           /\ d \in DOMAIN ld'.l.manifestsByDigest
           /\ ld'.l.manifestsByDigest[d] = ld.l.manifestsByDigest[d]
    /\ \A d \in DOMAIN ld.l.configsByDigest :
           /\ d \in DOMAIN ld'.l.configsByDigest
           /\ ld'.l.configsByDigest[d] = ld.l.configsByDigest[d]

\* C19: of the thunks that fetch one digest concurrently the first to insert
\* wins: every caller is given the value that is in the cache, so all callers
\* for one digest are given the same value, and an entry of a cache is never
\* replaced or removed.
C19_FirstInsertWins == []ReturnsCached /\ [][CacheKept]_vars

\* C19 witness: two thunks have each read and decoded the same config
\* themselves, and both have returned the one that was inserted first.
C19_Witness ==
    /\ ld.th[1].pc = "done" /\ ld.th[2].pc = "done"
    /\ ld.th[1].own # ZeroConfig /\ ld.th[2].own # ZeroConfig
    /\ ld.th[1].own # ld.th[2].own
    /\ ld.th[1].config = ld.th[2].config
    /\ ld.th[1].config = ld.th[2].own

\* The manifest descriptors of the store's root index and of its nested
\* index, in the order of getAllManifestDescriptors.
FlattenedSet ==
    << ThunkRootBytes.manifests[1], ThunkRootBytes.manifests[3],
       ThunkRootBytes.manifests[4], ThunkRootBytes.manifests[5],
       NestedIndexBytes.manifests[1] >>

\* The platform written in the config blob that the manifest of md refers to.
PlatformInStore(md) ==
    Bind(ThunkStore.Blobs[ThunkStore.Blobs[md.Digest].config.Digest], LAMBDA c :
        [OS |-> c.os, Architecture |-> c.architecture, Variant |-> c.variant,
         OSVersion |-> c.osVersion, OSFeatures |-> c.osFeatures])

\* C20: the index has one entry for every manifest descriptor of the
\* flattened set; the entry's platform is the descriptor's when it carries
\* one and is otherwise os, architecture, variant, os.version and os.features
\* of the config of the descriptor's manifest; the image an entry's thunk
\* returns carries the platform of the entry.
C20_EntryPlatform ==
    /\ ld.err = Nil
    /\ [k \in 1..Len(ld.index) |-> ld.index[k].md] = FlattenedSet
    /\ \A k \in 1..Len(ld.index) :
           ld.index[k].Platform =
               IF ld.index[k].md.Platform.nil
               THEN PlatformInStore(ld.index[k].md)
               ELSE ld.index[k].md.Platform.v
    /\ \A i \in 1..MaxThunks :
           (ld.th[i].pc = "done" /\ ld.th[i].err = Nil) =>
               ld.th[i].img.Platform = ld.index[ld.th[i].e].Platform

\* C20 witness: the thunk of the nested index's manifest, whose descriptor
\* carries no platform, has returned an image with the platform of its
\* config, and the thunk of a descriptor with a platform has returned too.
C20_Witness ==
    /\ ld.th[1].pc = "done" /\ ld.th[1].err = Nil
    /\ ld.th[1].md = NestedIndexBytes.manifests[1]
    /\ ld.th[1].img.Platform.Variant = "v8"
    /\ ld.th[1].img.Platform.OSFeatures = <<"win32k">>
    /\ ld.th[2].pc = "done" /\ ld.th[2].err = Nil
    /\ ~ld.th[2].md.Platform.nil
    /\ ld.th[2].img.Platform = LinuxArmV7

(***************************************************************************)
(* SpecMedia: GetImage on manifests whose layers carry every kind of media *)
(* type                                                                    *)
(***************************************************************************)
MaxMedia == 2

MediaTypeImageLayer == "application/vnd.oci.image.layer.v1.tar"

MediaTypeImageLayerNonDistributableZstd ==
    "application/vnd.oci.image.layer.nondistributable.v1.tar+zstd"

LayerMediaTypes ==
    {MediaTypeImageLayer, MediaTypeImageLayerGzip, MediaTypeDockerLayerGzip,
     MediaTypeDockerForeignLayerGzip, MediaTypeImageLayerNonDistributable,
     MediaTypeImageLayerNonDistributableGzip,
     MediaTypeImageLayerNonDistributableZstd}

\* The layer descriptors of a manifest whose layers have the given types.
MediaLayers(types) ==
    [i \in 1..Len(types) |->
        Descriptor(types[i], FromBytes(RawBytes(30 + i, i)), i, NilPlatform)]

\* A config with n diff IDs.
MediaConfigBytes(n) ==
    [Blank EXCEPT !.diffIDs = [i \in 1..n |-> DiffID(i)], !.os = "linux",
                  !.architecture = "arm"]

MediaManifestBytes(types, n) ==
    [Blank EXCEPT !.mediaType = MediaTypeImageManifest,
                  !.config = Descriptor(MediaTypeImageConfig,
                                        FromBytes(MediaConfigBytes(n)), 1,
                                        NilPlatform),
                  !.layers = MediaLayers(types)]

MediaRootBytes(types, n) ==
    [Blank EXCEPT !.mediaType = MediaTypeImageIndex,
                  !.manifests =
                      <<Descriptor(MediaTypeImageManifest,
                                   FromBytes(MediaManifestBytes(types, n)), 1,
                                   Ptr(LinuxArmV7))>>]

\* A store that serves one image: its layers have the given types and its
\* config has n diff IDs.
MediaStore(types, n) ==
    RemoteLoader(MediaRootBytes(types, n),
        (FromBytes(MediaManifestBytes(types, n)) :> MediaManifestBytes(types, n))
        @@ (FromBytes(MediaConfigBytes(n)) :> MediaConfigBytes(n)),
        UnknownDigest)

NoResult == [done |-> FALSE, err |-> Nil, img |-> ZeroImage]

InitMedia ==
    /\ \E k \in 0..MaxMedia : \E types \in [1..k -> LayerMediaTypes] :
       \E n \in {k, k + 1} :
           ld = [pc |-> "start", types |-> types, n |-> n,
                 l |-> NewLoader(MediaStore(types, n)), index |-> <<>>,
                 err |-> Nil, res |-> NoResult]
    /\ b = IdleBuilder
    /\ ret = NoCall
    /\ nOps = 0
    /\ ar = NoArchive
    /\ im = NoImage
    /\ lb = NoLayerBuilder

\* image.Load on the store
LoadMedia ==
    /\ ld.pc = "start"
    /\ ld' = Bind(Load(ld.l.src, "go1.20"), LAMBDA r :
                 [ld EXCEPT !.pc = "loaded", !.l = r.l, !.index = r.v,
                            !.err = r.err])
    /\ UNCHANGED <<b, ret, nOps, ar, im, lb>>

\* IndexEntry.GetImage of the one entry of the index
GetImageMedia ==
    /\ ld.pc = "loaded"
    /\ Len(ld.index) = 1
    /\ ld' = Bind(buildImage(ld.l, ld.index[1].md, "go1.20"), LAMBDA r :
                 [ld EXCEPT !.pc = "done", !.l = r.l,
                            !.res = [done |-> TRUE, err |-> r.err, img |-> r.v]])
    /\ UNCHANGED <<b, ret, nOps, ar, im, lb>>

NextMedia ==
    \/ LoadMedia
    \/ GetImageMedia

SpecMedia == InitMedia /\ [][NextMedia]_vars

\* Docker's foreign layer type and the OCI nondistributable layer types.
ForeignMediaTypes ==
    {MediaTypeDockerForeignLayerGzip, MediaTypeImageLayerNonDistributable,
     MediaTypeImageLayerNonDistributableGzip,
     MediaTypeImageLayerNonDistributableZstd}

HasForeignLayer == \E i \in 1..Len(ld.types) : ld.types[i] \in ForeignMediaTypes

\* C21: no image GetImage returns has a layer of Docker's gzip type or of a
\* foreign or nondistributable type: a manifest with such a layer at any
\* position makes GetImage fail and return the zero image, and in the images
\* it returns a Docker gzip layer has the OCI tar+gzip type, every other
\* layer its own type, and every layer the digest and size of the manifest.
C21_NoForeignLayers ==
    ld.res.done =>
        /\ HasForeignLayer => (ld.res.err # Nil /\ ld.res.img = ZeroImage)
        /\ ld.res.err = Nil =>
               /\ Len(ld.res.img.Layers) = Len(ld.types)
               /\ \A i \in 1..Len(ld.types) :
                      LET d == ld.res.img.Layers[i].Descriptor
                      IN  /\ d.MediaType \notin
                                 ForeignMediaTypes \cup {MediaTypeDockerLayerGzip}
                          /\ d.MediaType =
                                 IF ld.types[i] = MediaTypeDockerLayerGzip
                                 THEN MediaTypeImageLayerGzip ELSE ld.types[i]
                          /\ d.Digest = MediaLayers(ld.types)[i].Digest
                          /\ d.Size = MediaLayers(ld.types)[i].Size

\* C21 witness: GetImage has returned an image whose second layer is a Docker
\* gzip layer in the manifest.
C21_Witness ==
    /\ ld.res.done
    /\ ld.res.err = Nil
    /\ Len(ld.types) = 2
    /\ ld.types[2] = MediaTypeDockerLayerGzip
    /\ ld.res.img.Layers[2].Descriptor.MediaType = MediaTypeImageLayerGzip

(***************************************************************************)
(* internal/image: platforms                                               *)
(***************************************************************************)
\* strings.Split(s, "/"): cur is the part that is being read.
RECURSIVE SplitFrom(_, _, _)
SplitFrom(s, i, cur) ==
    IF i > Len(s) THEN <<cur>>
    ELSE IF SubSeq(s, i, i) = "/" THEN <<cur>> \o SplitFrom(s, i + 1, "")
    ELSE SplitFrom(s, i + 1, cur \o SubSeq(s, i, i))

Split(s) == SplitFrom(s, 1, "")

\* strings.Join(parts, "/")
RECURSIVE JoinSlash(_)
JoinSlash(parts) ==
    IF Len(parts) = 0 THEN ""
    ELSE IF Len(parts) = 1 THEN parts[1]
    ELSE parts[1] \o "/" \o JoinSlash(Tail(parts))

ZeroPlatform == Platform("", "", "")

\* A plausible slip: the empty variant of a three-part string is let through.
ParsePlatform_emptyVariant(ps) ==
    Bind(Split(ps), LAMBDA parts :
        IF Len(parts) < 2 \/ Len(parts) > 3
        THEN [v |-> ZeroPlatform,
              err |-> RawErr("must have 2 or 3 slash separated parts")]
        ELSE IF parts[1] = ""
        THEN [v |-> ZeroPlatform, err |-> RawErr("missing OS in platform")]
        ELSE IF parts[2] = ""
        THEN [v |-> ZeroPlatform,
              err |-> RawErr("missing architecture in platform")]
        ELSE [v |-> Platform(parts[1], parts[2],
                             IF Len(parts) = 3 THEN parts[3] ELSE ""),
              err |-> Nil])

\* image.ParsePlatform
ParsePlatform(ps) ==
    Bind(Split(ps), LAMBDA parts :
        IF Len(parts) < 2 \/ Len(parts) > 3
        THEN [v |-> ZeroPlatform,
              err |-> RawErr("must have 2 or 3 slash separated parts")]
        ELSE IF parts[1] = ""
        THEN [v |-> ZeroPlatform, err |-> RawErr("missing OS in platform")]
        ELSE IF parts[2] = ""
        THEN [v |-> ZeroPlatform,
              err |-> RawErr("missing architecture in platform")]
        ELSE IF Len(parts) = 3 /\ parts[3] = ""
        THEN [v |-> ZeroPlatform, err |-> RawErr("empty variant in platform")]
        ELSE [v |-> Platform(parts[1], parts[2],
                             IF Len(parts) = 3 THEN parts[3] ELSE ""),
              err |-> Nil])

\* A plausible slip: the variant is always written out.
FormatPlatform_alwaysVariant(p) == JoinSlash(<<p.OS, p.Architecture, p.Variant>>)

\* image.FormatPlatform
FormatPlatform(p) ==
    IF p.Variant # "" THEN JoinSlash(<<p.OS, p.Architecture, p.Variant>>)
    ELSE JoinSlash(<<p.OS, p.Architecture>>)

\* image.featuresMatch
featuresMatch(requested, comparand) ==
    \A i \in 1..Len(requested) :
        \E j \in 1..Len(comparand) : comparand[j] = requested[i]

\* image.platformMatches
platformMatches(requested, comparand) ==
    /\ ~(requested.Architecture # ""
            /\ requested.Architecture # comparand.Architecture)
    /\ ~(requested.OS # "" /\ requested.OS # comparand.OS)
    /\ ~(requested.OSVersion # "" /\ requested.OSVersion # comparand.OSVersion)
    /\ featuresMatch(requested.OSFeatures, comparand.OSFeatures)
    /\ ~(requested.Variant # "" /\ requested.Variant # comparand.Variant)

\* runtime.GOOS of the build
GOOS == "linux"

\* containerd platforms.Normalize, on the lower-case names of the model: an
\* empty OS is the OS of the build, arm without a variant is v7, the v8 of
\* arm64 is dropped, and OSVersion and OSFeatures are removed.
Normalize(p) ==
    [OS |-> IF p.OS = "" THEN GOOS ELSE p.OS,
     Architecture |-> p.Architecture,
     Variant |-> IF p.Architecture = "arm64" /\ p.Variant = "v8" THEN ""
                 ELSE IF p.Architecture = "arm" /\ p.Variant = "" THEN "v7"
                 ELSE p.Variant,
     OSVersion |-> "", OSFeatures |-> <<>>]

\* The arm variants below a given one, from the closest down to v5.
LowerArm(variant) ==
    IF variant = "v8" THEN <<"v7", "v6", "v5">>
    ELSE IF variant = "v7" THEN <<"v6", "v5">>
    ELSE IF variant = "v6" THEN <<"v5">>
    ELSE <<>>

\* containerd platformVector: the platform and those it can also run, best
\* first.
platformVector(p) ==
    IF p.Architecture = "amd64"
    THEN <<p, [p EXCEPT !.Architecture = "386"]>>
    ELSE IF p.Architecture = "arm"
    THEN <<p>> \o [i \in 1..Len(LowerArm(p.Variant)) |->
                      [p EXCEPT !.Variant = LowerArm(p.Variant)[i]]]
    ELSE IF p.Architecture = "arm64"
    THEN <<p, [p EXCEPT !.Architecture = "arm", !.Variant = "v8"]>>
         \o [i \in 1..3 |->
                [p EXCEPT !.Architecture = "arm",
                          !.Variant = LowerArm("v8")[i]]]
    ELSE <<p>>

\* containerd matcher.Match
MatcherMatch(m, p) ==
    Bind(Normalize(p), LAMBDA n :
        m.OS = n.OS /\ m.Architecture = n.Architecture /\ m.Variant = n.Variant)

\* containerd platforms.Only(platform): the matchers, best first
Only(platform) == platformVector(Normalize(platform))

\* orderedPlatformComparer.Match
OnlyMatch(matchers, p) ==
    \E k \in 1..Len(matchers) : MatcherMatch(matchers[k], p)

\* orderedPlatformComparer.Less: p1 matches an earlier matcher than any that
\* p2 matches.
OnlyLess(matchers, p1, p2) ==
    \E k \in 1..Len(matchers) :
        /\ MatcherMatch(matchers[k], p1)
        /\ ~MatcherMatch(matchers[k], p2)
        /\ \A j \in 1..(k - 1) :
               ~MatcherMatch(matchers[j], p1) /\ ~MatcherMatch(matchers[j], p2)

\* The insertion step of sort.Slice (slices of fewer than 12 elements are
\* sorted by insertion): x moves left past every element it is less than.
RECURSIVE insertionSortStep(_, _, _)
insertionSortStep(matchers, s, x) ==
    IF s # <<>> /\ OnlyLess(matchers, x.Platform, Last(s).Platform)
    THEN Append(insertionSortStep(matchers, Front(s), x), Last(s))
    ELSE Append(s, x)

RECURSIVE sortSlice(_, _, _)
sortSlice(matchers, done, rest) ==
    IF rest = <<>> THEN done
    ELSE sortSlice(matchers, insertionSortStep(matchers, done, Head(rest)),
                   Tail(rest))

\* The revisions of Index.SelectByPlatform: with the matcher of containerd,
\* and with platformMatches.
Revisions == {"platforms.Only", "platformMatches"}

\* Index.SelectByPlatform
SelectByPlatform(idx, platform, rev) ==
    IF rev = "platforms.Only"
    THEN sortSlice(Only(platform), <<>>,
                   SelectSeq(idx, LAMBDA e : OnlyMatch(Only(platform), e.Platform)))
    ELSE SelectSeq(idx, LAMBDA e : platformMatches(platform, e.Platform))

(***************************************************************************)
(* SpecPlatform: SelectByPlatform on small indexes, ParsePlatform on every *)
(* short string and FormatPlatform on platforms with short fields          *)
(***************************************************************************)
MaxIndex == 2

MaxStr == 5

MaxField == 2

\* The strings of at most n letters of the alphabet.
RECURSIVE Strs(_, _)
Strs(alphabet, n) ==
    IF n = 0 THEN {""}
    ELSE Strs(alphabet, n - 1)
         \cup {s \o c : s \in Strs(alphabet, n - 1), c \in alphabet}

WithOS(p, version, features) ==
    [p EXCEPT !.OSVersion = version, !.OSFeatures = features]

CandidatePlatforms ==
    {Platform("linux", "arm", "v6"), Platform("linux", "arm", "v7"),
     Platform("linux", "arm64", "v8"), Platform("linux", "amd64", ""),
     Platform("zero", "zero", ""),
     WithOS(Platform("zero", "zero", ""), "", <<"widgets", "gadgets">>),
     WithOS(Platform("zero", "zero", ""), "42.0.0", <<>>)}

RequestedPlatforms ==
    {ZeroPlatform, Platform("linux", "", ""), Platform("linux", "arm", ""),
     Platform("linux", "arm", "v7"), Platform("linux", "arm64", "v9"),
     Platform("windows", "amd64", ""), Platform("zero", "zero", ""),
     WithOS(Platform("zero", "zero", ""), "", <<"widgets">>),
     WithOS(Platform("zero", "zero", ""), "42.0.0", <<>>)}

\* An index of the given platforms; the size of the descriptor tells the
\* entries apart.
IndexOf(platforms) ==
    [i \in 1..Len(platforms) |->
        IndexEntry(platforms[i], Descriptor("", NoDigest, i, NilPlatform))]

InputPlatforms ==
    {WithOS(Platform(os, arch, variant), version, <<>>) :
        os \in Strs({"a", "/"}, MaxField), arch \in Strs({"a", "/"}, MaxField),
        variant \in Strs({"a", "/"}, MaxField), version \in {"", "1"}}

PlatformCall(kind, index, request, s, p) ==
    [kind |-> kind, pc |-> "start", index |-> index, request |-> request,
     rev |-> "", selected |-> <<>>, s0 |-> s, p0 |-> p, s |-> s, p |-> p,
     err |-> Nil]

InitPlatform ==
    /\ \/ \E k \in 0..MaxIndex : \E ps \in [1..k -> CandidatePlatforms] :
          \E request \in RequestedPlatforms :
              ld = PlatformCall("select", IndexOf(ps), request, "", ZeroPlatform)
       \/ \E s \in Strs({"a", "b", "/"}, MaxStr) :
              ld = PlatformCall("parse", <<>>, ZeroPlatform, s, ZeroPlatform)
       \/ \E p \in InputPlatforms :
              ld = PlatformCall("format", <<>>, ZeroPlatform, "", p)
    /\ b = IdleBuilder
    /\ ret = NoCall
    /\ nOps = 0
    /\ ar = NoArchive
    /\ im = NoImage
    /\ lb = NoLayerBuilder

\* ld.index.SelectByPlatform(ld.request), in either revision
Select(rev) ==
    /\ ld.kind = "select"
    /\ ld.pc = "start"
    /\ ld' = [ld EXCEPT !.pc = "selected", !.rev = rev,
                        !.selected = SelectByPlatform(ld.index, ld.request, rev)]
    /\ UNCHANGED <<b, ret, nOps, ar, im, lb>>

\* ParsePlatform of the input string, or of what FormatPlatform returned
Parse ==
    /\ \/ ld.kind = "parse" /\ ld.pc = "start"
       \/ ld.kind = "format" /\ ld.pc = "formatted"
    /\ ld' = Bind(ParsePlatform(ld.s), LAMBDA r :
                 [ld EXCEPT !.pc = "parsed", !.p = r.v, !.err = r.err])
    /\ UNCHANGED <<b, ret, nOps, ar, im, lb>>

\* FormatPlatform of the input platform, or of what ParsePlatform returned
Format ==
    /\ \/ ld.kind = "format" /\ ld.pc = "start"
       \/ ld.kind = "parse" /\ ld.pc = "parsed" /\ ld.err = Nil
    /\ ld' = [ld EXCEPT !.pc = "formatted", !.s = FormatPlatform(ld.p)]
    /\ UNCHANGED <<b, ret, nOps, ar, im, lb>>

NextPlatform ==
    \/ \E rev \in Revisions : Select(rev)
    \/ Parse
    \/ Format

SpecPlatform == InitPlatform /\ [][NextPlatform]_vars

\* A requested platform matches a candidate: its non-empty fields equal the
\* candidate's and its features are among the candidate's.
MatchesRequest(request, candidate) ==
    /\ request.OS \in {"", candidate.OS}
    /\ request.Architecture \in {"", candidate.Architecture}
    /\ request.OSVersion \in {"", candidate.OSVersion}
    /\ request.Variant \in {"", candidate.Variant}
    /\ {request.OSFeatures[i] : i \in 1..Len(request.OSFeatures)}
           \subseteq {candidate.OSFeatures[i] : i \in 1..Len(candidate.OSFeatures)}

\* C22 as stated: SelectByPlatform returns exactly the entries whose platform
\* matches the request, in the order of the index; the empty request returns
\* the whole index and a request no entry matches the empty index.
C22_SelectsMatches ==
    ld.pc = "selected" =>
        ld.selected =
            SelectSeq(ld.index, LAMBDA e : MatchesRequest(ld.request, e.Platform))

HasSlash(s) == \E i \in 1..Len(s) : SubSeq(s, i, i) = "/"

\* A platform that FormatPlatform can write out in full.
Formattable(p) ==
    p.OS # "" /\ p.Architecture # "" /\ p.OSVersion = "" /\ p.OSFeatures = <<>>

RoundTripped == ld.kind = "format" /\ ld.pc = "parsed"

\* C23 as stated: for every platform with a non-empty os and architecture,
\* no os version and no os features, ParsePlatform(FormatPlatform(P))
\* succeeds and returns P.
C23_RoundTrip ==
    (RoundTripped /\ Formattable(ld.p0)) => (ld.err = Nil /\ ld.p = ld.p0)

\* C23: for every platform with a non-empty os and architecture, no os
\* version, no os features and no slash in its os, architecture or variant,
\* ParsePlatform(FormatPlatform(P)) succeeds and returns P.
C23_RoundTripSlashless ==
    (/\ RoundTripped
     /\ Formattable(ld.p0)
     /\ ~HasSlash(ld.p0.OS)
     /\ ~HasSlash(ld.p0.Architecture)
     /\ ~HasSlash(ld.p0.Variant)) => (ld.err = Nil /\ ld.p = ld.p0)

\* C23 witness: a platform with a variant has been formatted and parsed back.
C23_Witness ==
    /\ RoundTripped
    /\ ld.p0 = Platform("a", "aa", "a")
    /\ ld.s = "a/aa/a"
    /\ ld.err = Nil
    /\ ld.p = ld.p0

\* A string of two or three non-empty parts with slashes between them.
WellShaped(s) ==
    /\ Len(s) >= 1
    /\ SubSeq(s, 1, 1) # "/"
    /\ SubSeq(s, Len(s), Len(s)) # "/"
    /\ \A i \in 1..(Len(s) - 1) : SubSeq(s, i, i + 1) # "//"
    /\ Cardinality({i \in 1..Len(s) : SubSeq(s, i, i) = "/"}) \in {1, 2}

\* C24: ParsePlatform succeeds exactly on the strings of two or three
\* non-empty slash-separated parts and returns an error on every other
\* string, and FormatPlatform gives back every string it has accepted.
C24_ParseFormat ==
    ld.kind = "parse" =>
        /\ ld.pc \in {"parsed", "formatted"} => (ld.err = Nil <=> WellShaped(ld.s0))
        /\ ld.pc = "formatted" => ld.s = ld.s0

\* C24 witness: a string of three parts has been parsed and formatted back.
C24_Witness ==
    /\ ld.kind = "parse"
    /\ ld.pc = "formatted"
    /\ ld.s0 = "a/b/a"
    /\ ld.p = Platform("a", "b", "a")
    /\ ld.s = ld.s0

(***************************************************************************)
(* internal/registry: pushing an image                                     *)
(***************************************************************************)
concurrentLayerUploads == 3

Workers == 1..concurrentLayerUploads

\* The registry: the blobs it is known to hold and the manifests put to it.
NewRegistry == [blobs |-> {}, manifests |-> <<>>]

\* The descriptor pusher.uploadConfig returns.
configDescriptor(config) ==
    Bind(MarshalConfig(config), LAMBDA configJSON :
        Descriptor(MediaTypeImageConfig, FromBytes(configJSON), configJSON.len,
                   NilPlatform))

\* The manifest pusher.uploadManifest encodes.
manifestJSON(img, configDesc) ==
    MarshalManifest(Manifest(MediaTypeImageManifest, configDesc,
                             ManifestLayers(img), img.Annotations))

NewGroup == [err |-> Nil, cancelled |-> FALSE]

\* A plausible slip: the group keeps the error of the last function to fail.
GroupReturn_lastError(g, err) ==
    IF err # Nil THEN [err |-> err, cancelled |-> TRUE] ELSE g

\* errgroup.Group: a function passed to Go has returned err.  The first error
\* is kept and cancels the context of the group.
GroupReturn(g, err) ==
    IF err # Nil /\ g.err = Nil THEN [err |-> err, cancelled |-> TRUE] ELSE g

\* What a request returns when it fails.
RequestError(g, what) ==
    IF g.cancelled THEN RawErr("context canceled") ELSE RawErr(what)

ZeroLayer == Layer(NoDesc, NoDigest, BufferBlob(NoBytes))

\* pos is the place in img.Layers of the layer the uploader works on.
IdleWorker == [pc |-> "idle", layer |-> ZeroLayer, pos |-> 0, open |-> FALSE]

NotReturned == [done |-> FALSE, err |-> Nil]

\* errs lists the errors the functions of the group have returned, in the
\* order of their return; taken lists, for each layer received from the
\* channel, whether OpenBlob was called for it.
NoPush ==
    [pc |-> "idle", ch |-> <<>>, closed |-> FALSE, cfg |-> "idle",
     configDesc |-> NoDesc, w |-> [k \in Workers |-> IdleWorker],
     g |-> NewGroup, errs |-> <<>>, taken |-> <<>>, reg |-> NewRegistry,
     ret |-> NotReturned]

\* A plausible slip: the channel is not closed after the layers are sent.
StartPush_notClosed(img) ==
    [NoPush EXCEPT !.pc = "running", !.ch = img.Layers, !.cfg = "run",
                   !.w = [k \in Workers |-> [IdleWorker EXCEPT !.pc = "recv"]]]

\* pusher.PushImage up to eg.Wait: the channel holds the layers, the config
\* upload and the layer uploaders are started.
StartPush(img) ==
    [NoPush EXCEPT !.pc = "running", !.ch = img.Layers, !.closed = TRUE,
                   !.cfg = "run",
                   !.w = [k \in Workers |-> [IdleWorker EXCEPT !.pc = "recv"]]]

\* The function of the group that has run uploadConfig returns err.
ConfigReturn(p, config, err) ==
    [p EXCEPT !.cfg = "done", !.configDesc = configDescriptor(config),
              !.g = GroupReturn(@, err),
              !.errs = IF err # Nil THEN Append(@, err) ELSE @,
              !.reg.blobs = IF err = Nil
                            THEN @ \cup {configDescriptor(config).Digest} ELSE @]

\* Layer uploader k returns err.
WorkerReturn(p, k, err) ==
    [p EXCEPT !.w[k] = [IdleWorker EXCEPT !.pc = "done"],
              !.g = GroupReturn(@, err),
              !.errs = IF err # Nil THEN Append(@, err) ELSE @]

\* Layer uploader k receives from the channel and begins uploadLayer: the
\* blob is skipped when the registry says it has it, else its stream is
\* opened.
beginUploadLayer(p, k, src, present) ==
    IF p.ch = <<>> THEN WorkerReturn(p, k, Nil)
    ELSE Bind([p EXCEPT !.ch = Tail(@),
                        !.taken = Append(@, ~(present /\ ~p.g.cancelled))],
              LAMBDA q :
         IF present /\ ~p.g.cancelled
         THEN [q EXCEPT !.reg.blobs = @ \cup {Head(p.ch).Descriptor.Digest}]
         ELSE Bind(OpenLayer(src, Head(p.ch)), LAMBDA o :
              IF o.err # Nil THEN WorkerReturn(q, k, o.err)
              ELSE [q EXCEPT !.w[k] = [pc |-> "put", layer |-> Head(p.ch),
                                       pos |-> Len(q.taken), open |-> TRUE]]))

\* A plausible slip: the layer whose upload is the first to fail is sent to
\* the channel again.
endUploadLayer_requeue(p, k, ok) ==
    IF ok
    THEN [p EXCEPT !.w[k] = [IdleWorker EXCEPT !.pc = "recv"],
                   !.reg.blobs = @ \cup {p.w[k].layer.Descriptor.Digest}]
    ELSE [WorkerReturn(p, k, RequestError(p.g, "blob upload failed")) EXCEPT
              !.ch = IF p.g.cancelled THEN @ ELSE Append(@, p.w[k].layer)]

\* uploadBlob of layer uploader k ends and uploadLayer returns: the deferred
\* Close closes the stream.
endUploadLayer(p, k, ok) ==
    IF ok
    THEN [p EXCEPT !.w[k] = [IdleWorker EXCEPT !.pc = "recv"],
                   !.reg.blobs = @ \cup {p.w[k].layer.Descriptor.Digest}]
    ELSE WorkerReturn(p, k, RequestError(p.g, "blob upload failed"))

\* eg.Wait returns once every function has returned; it cancels the context.
\* PushImage returns the error of the group at once.
waitGroup(p) ==
    [p EXCEPT !.g.cancelled = TRUE,
              !.pc = IF p.g.err # Nil THEN "returned" ELSE "waited",
              !.ret = IF p.g.err # Nil THEN [done |-> TRUE, err |-> p.g.err]
                      ELSE @]

\* pusher.uploadManifest, and the return of PushImage
uploadManifest(p, img, ok) ==
    [p EXCEPT !.pc = "returned",
              !.reg.manifests = IF ok THEN Append(@, manifestJSON(img, p.configDesc))
                                ELSE @,
              !.ret = [done |-> TRUE,
                       err |-> IF ok THEN Nil
                               ELSE RawErr("manifest upload failed")]]

(***************************************************************************)
(* SpecWrite: an image is loaded or made from nothing, extended by         *)
(* AppendLayer, and then written to a sink that may fail, or pushed to a   *)
(* registry whose requests may fail                                        *)
(***************************************************************************)
MaxWrites == 15

WriteBudgets == (0..MaxWrites) \cup {Unlimited}

\* Layers of the store: a layer, a layer whose blob is missing, and layers
\* whose blob is shorter and longer than the size of the descriptor.
WLayer == Descriptor(MediaTypeImageLayerGzip, FromBytes(RawBytes(41, 1)), 1, NilPlatform)

WMissingLayer ==
    Descriptor(MediaTypeImageLayerGzip, FromBytes(RawBytes(42, 1)), 1, NilPlatform)

WShortLayer ==
    Descriptor(MediaTypeImageLayerGzip, FromBytes(RawBytes(43, 1)), 2, NilPlatform)

WLongLayer ==
    Descriptor(MediaTypeImageLayerGzip, FromBytes(RawBytes(44, 2)), 1, NilPlatform)

\* The layers of the images of the store.
WLayers ==
    << <<WLayer>>, <<WLayer, WMissingLayer>>, <<WShortLayer>>, <<WLongLayer>> >>

WConfigBytes(n) ==
    [Blank EXCEPT !.diffIDs = [i \in 1..n |-> DiffID(i)], !.os = "linux",
                  !.architecture = "arm", !.variant = "v7", !.payload = "cmd"]

WManifestBytes(layers) ==
    [Blank EXCEPT !.mediaType = MediaTypeImageManifest,
                  !.config = Descriptor(MediaTypeImageConfig,
                                        FromBytes(WConfigBytes(Len(layers))), 1,
                                        NilPlatform),
                  !.layers = layers, !.annotations = ("org.example.k" :> "v")]

WRootBytes ==
    [Blank EXCEPT
        !.mediaType = MediaTypeImageIndex,
        !.manifests = [i \in 1..Len(WLayers) |->
                          Descriptor(MediaTypeImageManifest,
                                     FromBytes(WManifestBytes(WLayers[i])), 1,
                                     Ptr(LinuxArmV7))]]

WriteStore ==
    RemoteLoader(WRootBytes,
        [d \in {FromBytes(WManifestBytes(WLayers[i])) : i \in 1..Len(WLayers)} |->
            WManifestBytes(WLayers[CHOOSE i \in 1..Len(WLayers) :
                                       FromBytes(WManifestBytes(WLayers[i])) = d])]
        @@ (FromBytes(WConfigBytes(1)) :> WConfigBytes(1))
        @@ (FromBytes(WConfigBytes(2)) :> WConfigBytes(2))
        @@ (WLayer.Digest :> RawBytes(41, 1))
        @@ (WShortLayer.Digest :> RawBytes(43, 1))
        @@ (WLongLayer.Digest :> RawBytes(44, 2)),
        UnknownDigest)

NotWrittenYet ==
    [done |-> FALSE, err |-> Nil, stream |-> <<>>, open |-> <<>>, left |-> 0]

\* base and appended remember the layers of the manifest the image was
\* loaded from and the layers handed to AppendLayer, call after call.
InitWrite ==
    /\ im = [pc |-> "start", l |-> NewLoader(WriteStore), index |-> <<>>,
             err |-> Nil, img |-> ZeroImage, base |-> <<>>, appended |-> <<>>,
             out |-> NotWrittenYet, push |-> NoPush]
    /\ b = IdleBuilder
    /\ ret = NoCall
    /\ nOps = 0
    /\ ar = NoArchive
    /\ lb = NoLayerBuilder
    /\ ld = NoLoad

\* image.Load on the store
LoadW ==
    /\ im.pc = "start"
    /\ im' = Bind(Load(WriteStore, "go1.20"), LAMBDA r :
                 [im EXCEPT !.pc = "loaded", !.l = r.l, !.index = r.v,
                            !.err = r.err])
    /\ UNCHANGED <<b, ret, nOps, ar, lb, ld>>

\* IndexEntry.GetImage of entry i
GetImageW(i) ==
    /\ im.pc = "loaded"
    /\ i \in 1..Len(im.index)
    /\ im' = Bind(buildImage(im.l, im.index[i].md, "go1.20"), LAMBDA r :
                 IF r.err # Nil THEN [im EXCEPT !.l = r.l, !.err = r.err]
                 ELSE [im EXCEPT !.pc = "image", !.l = r.l, !.img = r.v,
                                 !.base = WLayers[i]])
    /\ UNCHANGED <<b, ret, nOps, ar, lb, ld>>

\* var img image.Image
NewImageW ==
    /\ im.pc = "loaded"
    /\ im' = [im EXCEPT !.pc = "image"]
    /\ UNCHANGED <<b, ret, nOps, ar, lb, ld>>

\* img.AppendLayer(layer)
AppendLayerW(layer) ==
    /\ im.pc = "image"
    /\ Len(im.img.Layers) < MaxLayers
    /\ im' = [im EXCEPT !.img = AppendLayerOp(@, layer, "image"),
                        !.appended = Append(@, layer)]
    /\ UNCHANGED <<b, ret, nOps, ar, lb, ld>>

\* ociarchive.WriteImage(img, w) on a sink that takes left writes
WriteImageW(left) ==
    /\ im.pc = "image"
    /\ im' = Bind(WriteImageOp(im.img, im.l.src, left, 0), LAMBDA r :
                 [im EXCEPT !.pc = "written",
                            !.out = [done |-> TRUE, err |-> r.err,
                                     stream |-> r.b.tw.stream, open |-> r.open,
                                     left |-> left]])
    /\ UNCHANGED <<b, ret, nOps, ar, lb, ld>>

\* pusher.PushImage(ctx, img) is called
PushImage ==
    /\ im.pc = "image"
    /\ im' = [im EXCEPT !.pc = "pushing", !.push = StartPush(im.img)]
    /\ UNCHANGED <<b, ret, nOps, ar, lb, ld>>

\* uploadConfig returns in its function of the group; a request succeeds only
\* while the context is not cancelled.
UploadConfig(ok) ==
    /\ im.push.pc = "running"
    /\ im.push.cfg = "run"
    /\ ok => ~im.push.g.cancelled
    /\ im' = [im EXCEPT !.push =
                 ConfigReturn(@, im.img.Config,
                     IF ok THEN Nil
                     ELSE RequestError(im.push.g, "config upload failed"))]
    /\ UNCHANGED <<b, ret, nOps, ar, lb, ld>>

\* Layer uploader k takes the next layer, or returns when there is none.
UploadLayer(k, present) ==
    /\ im.push.pc = "running"
    /\ im.push.w[k].pc = "recv"
    /\ im.push.ch # <<>> \/ im.push.closed
    /\ im' = [im EXCEPT !.push = beginUploadLayer(@, k, im.l.src, present)]
    /\ UNCHANGED <<b, ret, nOps, ar, lb, ld>>

\* The upload of layer uploader k ends.
UploadBlob(k, ok) ==
    /\ im.push.pc = "running"
    /\ im.push.w[k].pc = "put"
    /\ ok => ~im.push.g.cancelled
    /\ im' = [im EXCEPT !.push = endUploadLayer(@, k, ok)]
    /\ UNCHANGED <<b, ret, nOps, ar, lb, ld>>

\* eg.Wait returns.
Wait ==
    /\ im.push.pc = "running"
    /\ im.push.cfg = "done"
    /\ \A k \in Workers : im.push.w[k].pc = "done"
    /\ im' = [im EXCEPT !.push = waitGroup(@)]
    /\ UNCHANGED <<b, ret, nOps, ar, lb, ld>>

\* uploadManifest returns, and PushImage with it.
UploadManifest(ok) ==
    /\ im.push.pc = "waited"
    /\ im' = [im EXCEPT !.push = uploadManifest(@, im.img, ok)]
    /\ UNCHANGED <<b, ret, nOps, ar, lb, ld>>

NextWrite ==
    \/ LoadW
    \/ \E i \in 1..Len(WLayers) : GetImageW(i)
    \/ NewImageW
    \/ \E layer \in BuiltLayers : AppendLayerW(layer)
    \/ \E left \in WriteBudgets : WriteImageW(left)
    \/ PushImage
    \/ \E ok \in BOOLEAN : UploadConfig(ok)
    \/ \E k \in Workers, present \in BOOLEAN : UploadLayer(k, present)
    \/ \E k \in Workers, ok \in BOOLEAN : UploadBlob(k, ok)
    \/ Wait
    \/ \E ok \in BOOLEAN : UploadManifest(ok)

SpecWrite == InitWrite /\ [][NextWrite]_vars

\* The digests of descriptors, in order.
Digests(descs) == [i \in 1..Len(descs) |-> descs[i].Digest]

\* The content of the regular file written under the given name.
Written(s, name) ==
    LET e == SelectSeq(ReadTar(s),
                       LAMBDA x : x.Name = name /\ x.Typeflag = TypeReg)
    IN  IF Len(e) = 1 THEN e[1].content ELSE NoBytes

\* The manifest the index.json of a written archive points to.
WrittenManifest(s) ==
    LET index == Written(s, <<"index.json">>)
    IN  IF Len(index.manifests) = 1
        THEN Written(s, <<"blobs", index.manifests[1].Digest.alg,
                          index.manifests[1].Digest.enc>>)
        ELSE NoBytes

\* The digests of the layers the image was loaded with, then those of the
\* layers AppendLayer was called with, call after call.
BaseThenAppended ==
    Digests(im.base) \o [i \in 1..Len(im.appended) |-> im.appended[i].Descriptor.Digest]

WrittenOK == im.out.done /\ im.out.err = Nil

ManifestPushed == Len(im.push.reg.manifests) > 0

\* C25: the layers of an image are those it was loaded with followed by the
\* layers AppendLayer was called with, in the order of the calls, and the
\* manifest WriteImage writes and the manifest PushImage uploads list the
\* descriptors of exactly those layers in that order.
C25_ManifestLayerOrder ==
    /\ Digests(ManifestLayers(im.img)) = BaseThenAppended
    /\ WrittenOK =>
           /\ WrittenManifest(im.out.stream).layers = ManifestLayers(im.img)
           /\ Digests(WrittenManifest(im.out.stream).layers) = BaseThenAppended
    /\ ManifestPushed =>
           /\ im.push.reg.manifests[1].layers = ManifestLayers(im.img)
           /\ Digests(im.push.reg.manifests[1].layers) = BaseThenAppended

\* C25 witness: an image loaded with one layer and given another by
\* AppendLayer has been written.
C25_Witness ==
    /\ WrittenOK
    /\ Len(im.base) = 1
    /\ Len(im.appended) = 1
    /\ Len(WrittenManifest(im.out.stream).layers) = 2

\* The entries of the written archive of the given type.
EntriesOf(typeflag) ==
    SelectSeq(ReadTar(im.out.stream), LAMBDA e : e.Typeflag = typeflag)

NamesOf(entries) == {entries[i].Name : i \in 1..Len(entries)}

BlobEntryName(dgst) == <<"blobs", dgst.alg, dgst.enc>>

\* The names WriteImage is to write regular files under, for the image and
\* the manifest it wrote.
ArchiveFileNames(img, manifest) ==
    {BlobEntryName(img.Layers[i].Descriptor.Digest) : i \in 1..Len(img.Layers)}
        \cup {BlobEntryName(manifest.config.Digest), BlobEntryName(FromBytes(manifest)),
              <<"index.json">>, <<ImageLayoutFile>>}

\* C26: a WriteImage that returns nil has written as regular files exactly
\* one blob for each layer, the blob of the encoded config, the blob of the
\* manifest, index.json and oci-layout; index.json holds one descriptor, with
\* the digest and the size of the manifest blob and the platform of the
\* image; every other entry is a directory above the blobs.
C26_ArchiveEntries ==
    WrittenOK =>
        Bind(WrittenManifest(im.out.stream), LAMBDA manifest :
            /\ Len(ReadTar(im.out.stream))
                   = Len(EntriesOf(TypeReg)) + Len(EntriesOf(TypeDir))
            /\ NamesOf(EntriesOf(TypeReg)) = ArchiveFileNames(im.img, manifest)
            /\ Len(EntriesOf(TypeReg)) = Len(im.img.Layers) + 4
            /\ NamesOf(EntriesOf(TypeDir)) \subseteq {<<"blobs">>, <<"blobs", "sha256">>}
            /\ Len(EntriesOf(TypeDir)) = Cardinality(NamesOf(EntriesOf(TypeDir)))
            /\ \A i \in 1..Len(im.img.Layers) :
                   Written(im.out.stream, BlobEntryName(im.img.Layers[i].Descriptor.Digest))
                       = OpenLayer(im.l.src, im.img.Layers[i]).bytes
            /\ Written(im.out.stream, BlobEntryName(manifest.config.Digest))
                   = MarshalConfig(im.img.Config)
            /\ manifest = MarshalManifest(Manifest("", manifest.config,
                              ManifestLayers(im.img), im.img.Annotations))
            /\ manifest.config.Digest = FromBytes(MarshalConfig(im.img.Config))
            /\ Written(im.out.stream, <<ImageLayoutFile>>)
                   = MarshalLayout(ImageLayoutVersion)
            /\ Bind(Written(im.out.stream, <<"index.json">>).manifests, LAMBDA ms :
                   /\ Len(ms) = 1
                   /\ ms[1].Digest = FromBytes(manifest)
                   /\ ms[1].Size = manifest.len
                   /\ ms[1].MediaType = MediaTypeImageManifest
                   /\ ms[1].Platform = Ptr(im.img.Platform)))

\* C26 witness: an image of two layers and a platform has been written.
C26_Witness ==
    /\ WrittenOK
    /\ Len(im.img.Layers) = 2
    /\ im.img.Platform = LinuxArmV7
    /\ Len(EntriesOf(TypeReg)) = 6
    /\ Len(EntriesOf(TypeDir)) = 2

\* The writes a whole archive takes: a header and the content for each blob
\* and each file, the two directories above the blobs, and the footer.
LayerWrites(img) == IF img.Layers = <<>> THEN 0 ELSE 2 + 2 * Len(img.Layers)

WritesNeeded(img) == 2 * Len(img.Layers) + 11

\* The sink fails before it has taken n writes.
SinkFailsBefore(n) == im.out.left # Unlimited /\ im.out.left < n

\* A layer blob cannot be put in the archive: it does not open, it has not
\* the size of its descriptor, it has the digest of an earlier layer, or the
\* sink fails under it.
LayerFails ==
    \/ \E i \in 1..Len(im.img.Layers) :
          Bind(OpenLayer(im.l.src, im.img.Layers[i]), LAMBDA o :
              o.err # Nil \/ o.bytes.len # im.img.Layers[i].Descriptor.Size)
    \/ \E i, j \in 1..Len(im.img.Layers) :
          i < j /\ im.img.Layers[i].Descriptor.Digest = im.img.Layers[j].Descriptor.Digest
    \/ SinkFailsBefore(LayerWrites(im.img))

StepFails == LayerFails \/ SinkFailsBefore(WritesNeeded(im.img))

\* Every header of the stream is followed by content of its size, and the
\* footer ends the stream.
Complete(s) ==
    /\ s # <<>>
    /\ s[Len(s)].kind = "footer"
    /\ \A i \in 1..Len(s) :
           (s[i].kind = "hdr" /\ s[i].Size > 0) =>
               /\ i < Len(s)
               /\ s[i + 1].kind = "data"
               /\ s[i + 1].Size = s[i].Size

HeaderNames(s) == {s[i].Name : i \in {k \in 1..Len(s) : s[k].kind = "hdr"}}

\* C27: when a step of WriteImage fails, be it the opening or the copy of a
\* layer blob or an add whose error the writer drops, WriteImage returns an
\* error; when it returns nil the archive has every entry, whole, and the
\* footer; after the failure of a layer blob there is no index.json.
C27_FailurePropagates ==
    im.out.done =>
        /\ StepFails => im.out.err # Nil
        /\ im.out.err = Nil =>
               /\ Complete(im.out.stream)
               /\ ArchiveFileNames(im.img, WrittenManifest(im.out.stream))
                      \subseteq HeaderNames(im.out.stream)
               /\ WrittenManifest(im.out.stream) # NoBytes
        /\ LayerFails => <<"index.json">> \notin HeaderNames(im.out.stream)

\* C27 witness: the layer of the image was written and the sink failed under
\* an add whose error WriteImage drops; WriteImage returned an error.
C27_Witness ==
    /\ im.out.done
    /\ im.out.err # Nil
    /\ Len(im.img.Layers) = 1
    /\ ~LayerFails
    /\ SinkFailsBefore(WritesNeeded(im.img) - 1)

\* C28: a stream a consumer has opened is closed when the consumer returns:
\* no layer blob stream is open once WriteImage has returned, nor once a
\* layer uploader of PushImage has left uploadLayer.
C28_StreamsClosed ==
    /\ im.out.done => im.out.open = <<>>
    /\ \A k \in Workers : im.push.w[k].pc # "put" => ~im.push.w[k].open

\* The digests of the blobs of the image that is pushed.
PushedBlobs ==
    {configDescriptor(im.img.Config).Digest}
        \cup {im.img.Layers[i].Descriptor.Digest : i \in 1..Len(im.img.Layers)}

\* C29: PushImage puts the manifest only when the registry has the config
\* blob and every layer blob, uploaded or found there; once an upload has
\* failed the context of the group is cancelled, no further blob reaches the
\* registry, the manifest is never put, and PushImage returns the error that
\* came first.
C29_ManifestAfterBlobs ==
    /\ [](ManifestPushed => PushedBlobs \subseteq im.push.reg.blobs)
    /\ [](im.push.errs # <<>> =>
              /\ im.push.g.cancelled
              /\ ~ManifestPushed
              /\ im.push.ret.done => im.push.ret.err = im.push.errs[1])
    /\ [][im.push.errs # <<>> => im'.push.reg = im.push.reg]_vars

\* C29 witness: two uploads have failed with different errors and PushImage
\* has returned, after a blob had reached the registry.
C29_Witness ==
    /\ im.push.ret.done
    /\ Len(im.push.errs) >= 2
    /\ im.push.errs[1] # im.push.errs[2]
    /\ im.push.reg.blobs # {}

(***************************************************************************)
(* SpecRoot: Load and the GetImage thunks on stores whose root document is *)
(* a single manifest, which the store may or may not serve by its digest,  *)
(* and on a store whose root is an index                                   *)
(***************************************************************************)
\* A root document that is a manifest, with tail bytes of white space after it.
RootManifestBytes(mediaType, tail) ==
    [StoreManifestBytes(<<StoreLayer>>) EXCEPT !.mediaType = mediaType,
                                               !.tail = tail]

\* served: OpenManifest has the root manifest under its digest;
\* pinned: the root was asked for by digest; config: the config blob is there.
RootManifestStore(mediaType, tail, served, pinned, config) ==
    Bind(RootManifestBytes(mediaType, tail), LAMBDA root :
        RemoteLoader(root,
            (StoreLayer.Digest :> LayerBytes)
            @@ (IF served THEN (FromBytes(root) :> root) ELSE <<>>)
            @@ (IF config THEN (StoreConfig.Digest :> StoreConfigBytes) ELSE <<>>),
            IF pinned THEN [ok |-> TRUE, dgst |-> FromBytes(root)]
            ELSE UnknownDigest))

\* A root index whose descriptor carries its platform.
RootIndexBytes ==
    [Blank EXCEPT !.mediaType = MediaTypeImageIndex,
                  !.manifests = <<StoreManifest(<<StoreLayer>>, Ptr(LinuxArmV7))>>]

RootIndexStore ==
    [Store EXCEPT !.root = RootIndexBytes,
                  !.rootDigest = [ok |-> TRUE, dgst |-> FromBytes(RootIndexBytes)]]

RootStores ==
    {RootManifestStore(mediaType, tail, served, pinned, config) :
        mediaType \in SupportedManifestMediaTypes, tail \in 0..1,
        served \in BOOLEAN, pinned \in BOOLEAN, config \in BOOLEAN}
    \cup {RootIndexStore}

IdleThunk == [NewThunk(0, NoDesc) EXCEPT !.pc = "idle"]

InitRoot ==
    /\ \E src \in RootStores :
          ld = [pc |-> "start", l |-> NewLoader(src), index |-> <<>>,
                err |-> Nil, th |-> [i \in 1..MaxThunks |-> IdleThunk]]
    /\ b = IdleBuilder
    /\ ret = NoCall
    /\ nOps = 0
    /\ ar = NoArchive
    /\ im = NoImage
    /\ lb = NoLayerBuilder

\* image.Load; every thunk then stands before the GetImage of the one entry.
LoadRoot ==
    /\ ld.pc = "start"
    /\ ld' = Bind(Load(ld.l.src, "go1.17"), LAMBDA r :
                 [ld EXCEPT !.pc = "loaded", !.l = r.l, !.index = r.v,
                            !.err = r.err,
                            !.th = IF r.err # Nil THEN @
                                   ELSE [i \in 1..MaxThunks |->
                                            NewThunk(1, r.v[1].md)]])
    /\ UNCHANGED <<b, ret, nOps, ar, im, lb>>

NextRoot == LoadRoot \/ NextThunks

SpecRoot == InitRoot /\ [][NextRoot]_vars

\* The root document is a single manifest.
RootIsManifest ==
    /\ ld.l.src.root.mediaType \in SupportedManifestMediaTypes
    /\ ld.l.src.root.manifests = <<>>

\* OpenManifest would fail for the root manifest.
RootNotServed == FromBytes(ld.l.src.root) \notin DOMAIN ld.l.src.Blobs

\* C30: when the root document is a single manifest, a Load that succeeds
\* returns one entry whose descriptor has the digest of the root bytes as
\* they were read; Load does not fail for want of the manifest, so the
\* platform was resolved without OpenManifest; and no GetImage thunk comes to
\* read or store a manifest: each gets the root manifest from the cache and
\* returns without a manifest error.
C30_RootManifestCached ==
    (ld.pc = "loaded" /\ RootIsManifest) =>
        /\ StoreConfig.Digest \in DOMAIN ld.l.src.Blobs => ld.err = Nil
        /\ ld.err = Nil =>
               /\ Len(ld.index) = 1
               /\ ld.index[1].md.Digest = FromBytes(ld.l.src.root)
               /\ ld.index[1].md.Size = ld.l.src.root.len + ld.l.src.root.tail
               /\ \A i \in 1..MaxThunks :
                      /\ ld.th[i].pc \notin {"m.read", "m.store"}
                      /\ ld.th[i].pc = "done" =>
                             /\ ld.th[i].err = Nil
                             /\ ld.th[i].manifest = DecodeManifest(ld.l.src.root).v

\* C30 witness: the root manifest has a trailing byte and is not served by
\* its digest; Load has succeeded and every thunk has returned an image.
C30_Witness ==
    /\ ld.pc = "loaded"
    /\ RootIsManifest
    /\ RootNotServed
    /\ ld.l.src.root.tail = 1
    /\ ld.err = Nil
    /\ \A i \in 1..MaxThunks : ld.th[i].pc = "done" /\ ld.th[i].err = Nil

(***************************************************************************)
(* SpecFetch: the GetImage thunks of an index whose manifests and configs  *)
(* are missing, not JSON, or not what their digest says; a read may also   *)
(* be cancelled                                                            *)
(***************************************************************************)
GarbledManifestBytes == RawBytes(31, 1)

ForgedManifestDigest == FromBytes(StoreManifestBytes(<<StoreExtraLayer>>))

\* A manifest whose config blob is not what its digest says.
BadConfigManifestBytes ==
    [StoreManifestBytes(<<StoreLayer>>) EXCEPT
        !.config = Descriptor(MediaTypeImageConfig, FromBytes(WindowsConfigBytes),
                              1, NilPlatform)]

FetchRootBytes ==
    [Blank EXCEPT
        !.mediaType = MediaTypeImageIndex,
        !.manifests =
            << StoreManifest(<<StoreLayer>>, Ptr(LinuxArmV7)),
               MissingManifest,
               Descriptor(MediaTypeImageManifest, FromBytes(GarbledManifestBytes),
                          1, Ptr(LinuxArmV7)),
               Descriptor(MediaTypeImageManifest, ForgedManifestDigest, 1,
                          Ptr(LinuxArmV7)),
               Descriptor(MediaTypeImageManifest,
                          FromBytes(BadConfigManifestBytes), 1, Ptr(LinuxArmV7)) >>]

FetchStore ==
    [Store EXCEPT
        !.root = FetchRootBytes,
        !.rootDigest = [ok |-> TRUE, dgst |-> FromBytes(FetchRootBytes)],
        !.Blobs = (FromBytes(GarbledManifestBytes) :> GarbledManifestBytes)
                  @@ (ForgedManifestDigest :> StoreManifestBytes(<<StoreDamagedLayer>>))
                  @@ (FromBytes(BadConfigManifestBytes) :> BadConfigManifestBytes)
                  @@ (FromBytes(WindowsConfigBytes) :> StoreConfigBytes)
                  @@ @]

Canceled == RawErr("context canceled")

InitFetch ==
    /\ Bind(Load(FetchStore, "go1.17"), LAMBDA r :
         \E es \in [1..MaxThunks -> 1..Len(r.v)] :
            ld = [l |-> r.l, index |-> r.v, err |-> r.err,
                  th |-> [i \in 1..MaxThunks |-> NewThunk(es[i], r.v[es[i]].md)]])
    /\ b = IdleBuilder
    /\ ret = NoCall
    /\ nOps = 0
    /\ ar = NoArchive
    /\ im = NoImage
    /\ lb = NoLayerBuilder

\* The context of thunk i is cancelled while it opens or reads a manifest or
\* a config: readJSONManifest or readJSONBlob returns the error.
ReadCancelled(i) ==
    /\ ld.th[i].pc \in {"m.read", "c.read"}
    /\ ld' = [ld EXCEPT !.th[i].pc = "done", !.th[i].err = Canceled]
    /\ UNCHANGED <<b, ret, nOps, ar, im, lb>>

NextFetch == NextThunks \/ \E i \in 1..MaxThunks : ReadCancelled(i)

SpecFetch == InitFetch /\ [][NextFetch]_vars

\* Every entry of the two caches was decoded from the document the store
\* has under the key, and what was read of it passed the verifier of the key.
CacheVerified ==
    /\ \A d \in DOMAIN ld.l.manifestsByDigest :
          /\ d \in DOMAIN ld.l.src.Blobs
          /\ ld.l.src.Blobs[d].json
          /\ Verified(d, Seen(ld.l.src.Blobs[d], ld.l.src.chunk))
          /\ ld.l.manifestsByDigest[d] = DecodeManifest(ld.l.src.Blobs[d]).v
    /\ \A d \in DOMAIN ld.l.configsByDigest :
          /\ d \in DOMAIN ld.l.src.Blobs
          /\ ld.l.src.Blobs[d].json
          /\ Verified(d, Seen(ld.l.src.Blobs[d], ld.l.src.chunk))
          /\ \E i \in 1..MaxThunks :
                ld.l.configsByDigest[d] =
                    DecodeConfig(ld.l.src.Blobs[d],
                                 "config read by thunk " \o ToString(i), "go1.17").v

\* A fetch that ends in an error leaves both caches as they were.
FailedFetchStep ==
    \A i \in 1..MaxThunks :
       (ld.th[i].pc \in {"m.read", "c.read"} /\ ld'.th[i].err # Nil)
       => /\ ld'.l.manifestsByDigest = ld.l.manifestsByDigest
          /\ ld'.l.configsByDigest = ld.l.configsByDigest

\* A fetch of a digest that is not in the cache goes to the loader.
MissGoesToLoader ==
    \A i \in 1..MaxThunks :
       /\ (/\ ld.th[i].pc = "m.load" /\ ld'.th[i] # ld.th[i]
           /\ ld.th[i].md.Digest \notin DOMAIN ld.l.manifestsByDigest)
          => ld'.th[i].pc = "m.read"
       /\ (/\ ld.th[i].pc = "c.load" /\ ld'.th[i] # ld.th[i]
           /\ ld.th[i].manifest.Config.Digest \notin DOMAIN ld.l.configsByDigest)
          => ld'.th[i].pc = "c.read"

\* C31: when the opening, reading, decoding or verifying of a manifest or a
\* config fails or is cancelled, the caches are left as they were; every
\* entry of a cache was decoded from a document that passed the verifier of
\* its key; and the next fetch of a digest that is still not cached reads it
\* from the loader again.
C31_FailedFetchNotCached ==
    /\ []CacheVerified
    /\ [][FailedFetchStep]_vars
    /\ [][MissGoesToLoader]_vars

\* C31 witness: the read of a manifest was cancelled for one thunk, and
\* another thunk has fetched the same manifest after it; a third document,
\* not what its digest says, was refused and is in no cache.
C31_Witness ==
    /\ ld.th[1].pc = "done" /\ ld.th[1].err = Canceled
    /\ ld.th[1].manifest = ZeroManifest
    /\ ld.th[2].md = ld.th[1].md
    /\ ld.th[2].pc = "done" /\ ld.th[2].err = Nil
    /\ ld.th[1].md.Digest \in DOMAIN ld.l.manifestsByDigest
    /\ ForgedManifestDigest \notin DOMAIN ld.l.manifestsByDigest

\* No step of a thunk writes the root index or the table of nested indexes.
IndexesKept ==
    /\ ld'.l.rootIndex = ld.l.rootIndex
    /\ ld'.l.nestedIndexes = ld.l.nestedIndexes

\* C32: the root index and the table of nested indexes are written while Load
\* runs and never after: they are as Load left them, the nested index of the
\* store in its table, and no step of a GetImage thunk, in any interleaving,
\* changes either.
C32_IndexesWrittenByLoad ==
    /\ [](/\ ld.l.rootIndex = DecodeIndex(ThunkRootBytes).v
          /\ DOMAIN ld.l.nestedIndexes = {FromBytes(NestedIndexBytes)}
          /\ ld.l.nestedIndexes[FromBytes(NestedIndexBytes)]
                 = DecodeIndex(NestedIndexBytes).v)
    /\ [][IndexesKept]_vars

\* C32 witness: two thunks have run to the end, one of them for the manifest
\* of the nested index, after reading and storing manifests themselves.
C32_Witness ==
    /\ ld.th[1].pc = "done" /\ ld.th[2].pc = "done"
    /\ ld.th[1].err = Nil /\ ld.th[2].err = Nil
    /\ ld.th[1].md = NestedIndexBytes.manifests[1]
    /\ ld.th[2].md = ThunkRootBytes.manifests[1]
    /\ ld.th[2].md.Digest \in DOMAIN ld.l.manifestsByDigest

\* The layers of the manifest the store has for descriptor md.
LayersInStore(md) == ThunkStore.Blobs[md.Digest].layers

\* C33: the thunk of the i-th entry builds the image of the i-th descriptor
\* of the flattened set: its layers are those of that descriptor's manifest,
\* in order; and the OpenBlob of each layer of a loaded image asks the loader
\* for the digest of that layer's descriptor and returns what the loader
\* returns, be it an error or bytes that do not hash to the digest.
C33_ThunkOwnDescriptor ==
    /\ \A k \in 1..Len(ld.index) : ld.index[k].md = FlattenedSet[k]
    /\ \A i \in 1..MaxThunks :
          /\ ld.th[i].md = FlattenedSet[ld.th[i].e]
          /\ (ld.th[i].pc = "done" /\ ld.th[i].err = Nil) =>
                /\ Digests([j \in 1..Len(ld.th[i].img.Layers) |->
                               ld.th[i].img.Layers[j].Descriptor])
                       = Digests(LayersInStore(FlattenedSet[ld.th[i].e]))
                /\ \A j \in 1..Len(ld.th[i].img.Layers) :
                      /\ ld.th[i].img.Layers[j].OpenBlob
                             = LoaderBlob(LayersInStore(FlattenedSet[ld.th[i].e])[j].Digest)
                      /\ OpenLayer(ld.l.src, ld.th[i].img.Layers[j])
                             = OpenBlob(ThunkStore,
                                        ld.th[i].img.Layers[j].Descriptor.Digest)

\* C33 witness: the thunks of two entries have returned different images;
\* the layer of one opens to bytes that do not hash to its digest.
C33_Witness ==
    /\ ld.th[1].pc = "done" /\ ld.th[1].err = Nil
    /\ ld.th[2].pc = "done" /\ ld.th[2].err = Nil
    /\ ld.th[1].e = 1 /\ ld.th[2].e = 2
    /\ ld.th[1].img # ld.th[2].img
    /\ Bind(OpenLayer(ld.l.src, ld.th[2].img.Layers[1]), LAMBDA o :
           /\ o.err = Nil
           /\ ~Verified(ld.th[2].img.Layers[1].Descriptor.Digest, o.bytes))

(***************************************************************************)
(* SpecFlatten: Load on root indexes of manifests, nested indexes and      *)
(* descriptors of other media types, in every order.  Every manifest       *)
(* descriptor carries a platform, so that Load reads the indexes only.     *)
(***************************************************************************)
MaxRoot == 3

PlatformOf(k) == Platform("linux", "arch" \o ToString(k), "")

\* The descriptor of manifest k; the store has no document for it.
FlatManifest(k) ==
    Descriptor(IF k % 2 = 0 THEN MediaTypeDockerManifest ELSE MediaTypeImageManifest,
               FromBytes(RawBytes(50 + k, 1)), 1, Ptr(PlatformOf(k)))

\* A descriptor of a media type the loader does not know.
OtherDescriptor ==
    Descriptor("text/plain", FromBytes(RawBytes(60, 1)), 1, NilPlatform)

\* An index that is found inside a nested index only; the store does not
\* have it.
InnerIndexBytes ==
    [Blank EXCEPT !.mediaType = MediaTypeImageIndex,
                  !.manifests = <<FlatManifest(6)>>]

InnerIndex ==
    Descriptor(MediaTypeImageIndex, FromBytes(InnerIndexBytes), 1, NilPlatform)

NestedBytes(k) ==
    IF k = 1
    THEN [Blank EXCEPT !.mediaType = MediaTypeImageIndex,
                       !.manifests = <<FlatManifest(3), OtherDescriptor,
                                       InnerIndex, FlatManifest(4)>>]
    ELSE [Blank EXCEPT !.mediaType = MediaTypeDockerManifestList,
                       !.manifests = <<FlatManifest(5)>>]

NestedIndex(k) ==
    Descriptor(IF k = 1 THEN MediaTypeImageIndex ELSE MediaTypeDockerManifestList,
               FromBytes(NestedBytes(k)), 1, NilPlatform)

RootDescriptors ==
    {FlatManifest(1), FlatManifest(2), OtherDescriptor, NestedIndex(1),
     NestedIndex(2)}

RECURSIVE SeqsUpTo(_, _)
SeqsUpTo(S, n) ==
    IF n = 0 THEN {<<>>}
    ELSE SeqsUpTo(S, n - 1)
             \cup {Append(q, x) : q \in {r \in SeqsUpTo(S, n - 1) : Len(r) = n - 1},
                                  x \in S}

FlatRootBytes(descs) ==
    [Blank EXCEPT !.mediaType = MediaTypeImageIndex, !.manifests = descs]

FlatStore(descs) ==
    RemoteLoader(FlatRootBytes(descs),
                 (NestedIndex(1).Digest :> NestedBytes(1))
                 @@ (NestedIndex(2).Digest :> NestedBytes(2)),
                 UnknownDigest)

InitFlatten ==
    /\ \E descs \in SeqsUpTo(RootDescriptors, MaxRoot) :
          ld = [pc |-> "start", l |-> NewLoader(FlatStore(descs)),
                index |-> <<>>, err |-> Nil]
    /\ b = IdleBuilder
    /\ ret = NoCall
    /\ nOps = 0
    /\ ar = NoArchive
    /\ im = NoImage
    /\ lb = NoLayerBuilder

\* image.Load
LoadFlat ==
    /\ ld.pc = "start"
    /\ ld' = Bind(Load(ld.l.src, "go1.17"), LAMBDA r :
                 [ld EXCEPT !.pc = "loaded", !.l = r.l, !.index = r.v,
                            !.err = r.err])
    /\ UNCHANGED <<b, ret, nOps, ar, im, lb>>

NextFlatten == LoadFlat

SpecFlatten == InitFlatten /\ [][NextFlatten]_vars

IsManifestDescriptor(d) == d.MediaType \in SupportedManifestMediaTypes

IsIndexDescriptor(d) == d.MediaType \in SupportedIndexMediaTypes

\* The manifest descriptors of the nested indexes that descs names, index
\* after index, as the store has them.
RECURSIVE NestedManifests(_, _)
NestedManifests(src, descs) ==
    IF descs = <<>> THEN <<>>
    ELSE (IF IsIndexDescriptor(Head(descs))
          THEN SelectSeq(src.Blobs[Head(descs).Digest].manifests,
                         IsManifestDescriptor)
          ELSE <<>>) \o NestedManifests(src, Tail(descs))

\* The order of flattening: the manifests of the root, then those of each
\* nested index.
FlatteningOrder(src) ==
    SelectSeq(src.root.manifests, IsManifestDescriptor)
        \o NestedManifests(src, src.root.manifests)

EntryDescriptors == [k \in 1..Len(ld.index) |-> ld.index[k].md]

\* C34: Load lists the manifest descriptors of the root index in the order
\* of the document, then those of each nested index in the order in which
\* the nested indexes stand in the root; descriptors of other media types
\* are passed over and raise no error; the entries of a flat index are the
\* descriptors of its document, in order; each entry has the platform of its
\* descriptor.
C34_FlatteningOrder ==
    ld.pc = "loaded" =>
        /\ ld.err = Nil
        /\ EntryDescriptors = FlatteningOrder(ld.l.src)
        /\ (\A k \in 1..Len(ld.l.src.root.manifests) :
                IsManifestDescriptor(ld.l.src.root.manifests[k]))
           => EntryDescriptors = ld.l.src.root.manifests
        /\ \A k \in 1..Len(ld.index) :
              ld.index[k].Platform = ld.index[k].md.Platform.v

\* C34 witness: a nested index stands before a manifest and a further nested
\* index in the root; the manifest of the root comes first in the Index.
C34_Witness ==
    /\ ld.pc = "loaded"
    /\ ld.l.src.root.manifests = <<NestedIndex(1), FlatManifest(1), NestedIndex(2)>>
    /\ EntryDescriptors
           = <<FlatManifest(1), FlatManifest(3), FlatManifest(4), FlatManifest(5)>>

\* C35: Load goes one level deep: an index named inside a nested index is
\* not fetched and raises no error, although the store does not have it, and
\* the manifests it names are not in the Index.
C35_OneLevel ==
    ld.pc = "loaded" =>
        /\ ld.err = Nil
        /\ InnerIndex.Digest \notin DOMAIN ld.l.nestedIndexes
        /\ DOMAIN ld.l.nestedIndexes
               = {ld.l.src.root.manifests[k].Digest :
                     k \in {j \in 1..Len(ld.l.src.root.manifests) :
                               IsIndexDescriptor(ld.l.src.root.manifests[j])}}
        /\ \A k \in 1..Len(ld.index) :
              /\ ld.index[k].md # FlatManifest(6)
              /\ ld.index[k].md # InnerIndex

\* C35 witness: the nested index that names a further index was loaded.
C35_Witness ==
    /\ ld.pc = "loaded"
    /\ ld.err = Nil
    /\ NestedIndex(1).Digest \in DOMAIN ld.l.nestedIndexes
    /\ \E k \in 1..Len(ld.index) : ld.index[k].md = FlatManifest(4)

(***************************************************************************)
(* SpecPush: PushImage on images of up to MaxPushLayers layers, one of     *)
(* which may have no blob; SpecPushFair adds that a step that can be taken *)
(* is taken in the end                                                     *)
(***************************************************************************)
MaxPushLayers == 4

\* An image of n built layers; with missing at a place of its own, the
\* layer of that place is one whose blob the store does not have.
PushLayer(n, missing) ==
    IF n = missing THEN Layer(WMissingLayer, DiffID(n), LoaderBlob(WMissingLayer.Digest))
    ELSE BuiltLayer(n)

PushedImage(n, missing) ==
    [ZeroImage EXCEPT !.Layers = [i \in 1..n |-> PushLayer(i, missing)]]

InitPush ==
    /\ \E n \in 0..MaxPushLayers, missing \in 0..MaxPushLayers :
          /\ missing <= n
          /\ im = [pc |-> "image", l |-> NewLoader(WriteStore), index |-> <<>>,
                   err |-> Nil, img |-> PushedImage(n, missing), base |-> <<>>,
                   appended |-> <<>>, out |-> NotWrittenYet, push |-> NoPush]
    /\ b = IdleBuilder
    /\ ret = NoCall
    /\ nOps = 0
    /\ ar = NoArchive
    /\ lb = NoLayerBuilder
    /\ ld = NoLoad

NextPush ==
    \/ PushImage
    \/ \E ok \in BOOLEAN : UploadConfig(ok)
    \/ \E k \in Workers, present \in BOOLEAN : UploadLayer(k, present)
    \/ \E k \in Workers, ok \in BOOLEAN : UploadBlob(k, ok)
    \/ Wait
    \/ \E ok \in BOOLEAN : UploadManifest(ok)

SpecPush == InitPush /\ [][NextPush]_vars

\* Every call returns and every goroutine that can run does run.
SpecPushFair == SpecPush /\ WF_vars(NextPush)

\* The uploaders that are inside uploadBlob.
InFlight == {k \in Workers : im.push.w[k].pc = "put"}

\* C36: each layer of the image is received from the channel once, by one
\* uploader: the layers received and the layers still in the channel are the
\* layers of the image, place for place; uploaders at work hold different
\* places; OpenBlob is called at most once for a place; at most three layer
\* uploads and the one config upload are under way at a time.
C36_OneWorkerPerLayer ==
    im.push.pc # "idle" =>
        /\ Len(im.push.taken) + Len(im.push.ch) = Len(im.img.Layers)
        /\ im.push.ch = SubSeq(im.img.Layers, Len(im.push.taken) + 1,
                               Len(im.img.Layers))
        /\ \A k \in InFlight :
              /\ im.push.w[k].pos \in 1..Len(im.push.taken)
              /\ im.push.taken[im.push.w[k].pos]
              /\ im.push.w[k].layer = im.img.Layers[im.push.w[k].pos]
        /\ \A k1, k2 \in InFlight :
              k1 # k2 => im.push.w[k1].pos # im.push.w[k2].pos
        /\ Cardinality(InFlight) <= 3

\* C36 witness: three uploads are under way with a layer still waiting in
\* the channel.
C36_Witness ==
    /\ Cardinality(InFlight) = 3
    /\ Len(im.push.ch) = 1
    /\ im.push.cfg = "run"

\* C37: PushImage returns, whatever the number of layers and whichever
\* uploads fail.
C37_PushReturns == (im.pc = "pushing") ~> im.push.ret.done

\* C37 witness: PushImage has returned after an upload failed while more
\* layers than there are uploaders were to be pushed.
C37_Witness ==
    /\ im.push.ret.done
    /\ Len(im.img.Layers) > concurrentLayerUploads
    /\ im.push.errs # <<>>
    /\ \A k \in Workers : im.push.w[k].pc = "done"

(***************************************************************************)
(* Independence of the images GetImage returns (checked under SpecImage)   *)
(***************************************************************************)
\* The step is an AppendLayer on the image of slot s.
AppendsTo(s) == \E layer \in BuiltLayers : AppendLayer(s, layer)

\* C38: AppendLayer on one image changes neither the layers nor the diff IDs
\* seen through another image, nor a config the loader has cached, and every
\* image keeps its diff IDs in agreement with its layers.
C38_ImagesIndependent ==
    /\ [][\A s \in Slots : AppendsTo(s) =>
             /\ \A t \in Slots \ {s} : im'.imgs[t] = im.imgs[t]
             /\ im'.l.configsByDigest = im.l.configsByDigest]_vars
    /\ [](\A s \in Slots : im.imgs[s].ok => DiffIDsAgree(im.imgs[s].v))

(***************************************************************************)
(* Layers of one digest in an image that is written (under SpecWrite)      *)
(***************************************************************************)
\* Every layer blob of the image opens and has the size of its descriptor.
LayersReadable ==
    \A i \in 1..Len(im.img.Layers) :
        Bind(OpenLayer(im.l.src, im.img.Layers[i]), LAMBDA o :
            o.err = Nil /\ o.bytes.len = im.img.Layers[i].Descriptor.Size)

\* C39: WriteImage of an image whose layer blobs can be read, into a sink
\* that takes every write, returns nil, also when two layers have one
\* digest; the manifest then lists every layer.
C39_SameDigestLayersWritten ==
    (im.out.done /\ im.out.left = Unlimited /\ LayersReadable) =>
        /\ im.out.err = Nil
        /\ WrittenManifest(im.out.stream) # NoBytes
        /\ WrittenManifest(im.out.stream).layers = ManifestLayers(im.img)

(***************************************************************************)
(* The platform of an image after SetPlatform (checked under SpecImage)    *)
(***************************************************************************)
\* A registry after PushImage of img: its manifest is the root document,
\* with no descriptor and so no platform around it.
PushedStore(img) ==
    Bind(manifestJSON(img, configDescriptor(img.Config)), LAMBDA manifest :
        RemoteLoader(manifest,
            (FromBytes(manifest) :> manifest)
            @@ (configDescriptor(img.Config).Digest :> MarshalConfig(img.Config)),
            UnknownDigest))

\* The platforms of the entries image.Load finds in that registry.
ReloadedPlatforms(img, build) ==
    Bind(Load(PushedStore(img), build), LAMBDA r :
        [i \in 1..Len(r.v) |-> r.v[i].Platform])

\* C40: after SetPlatform(p) the image has the platform p, and so has the
\* entry image.Load finds once the image is stored as a bare manifest, for
\* the platform is then read from the config.
C40_ConfigPlatformFollows ==
    [][\A s \in Slots : SetPlatform(s, LinuxArmV7) =>
          /\ im'.imgs[s].v.Platform = LinuxArmV7
          /\ ReloadedPlatforms(im'.imgs[s].v, im.build) = <<LinuxArmV7>>]_vars

====
